---- MODULE Spec2Model ----
(***************************************************************************)
(* A model of the go-media-center-example backend: the on-demand image     *)
(* transformation handler with its storage-backed cache                    *)
(* (internal/api/handlers/media.go, TransformMedia), the transformation    *)
(* options and engine (utils: Validate, ApplyPreset, TransformImage) and   *)
(* the bounded concurrent URL import (internal/api/handlers/batch.go,      *)
(* BulkURLUpload and processURLUpload).                                     *)
(***************************************************************************)
EXTENDS Integers, Sequences, FiniteSets, TLC

VARIABLES
    store,      \* the storage backend: object key -> stored content
    dbMedia,    \* the media table: primary key ID -> record
    dbTags,     \* the tags table: the set of tag names (Name is unique)
    resp,       \* TransformMedia: the last request with the response it got
    served,     \* TransformMedia: <<media id, options>> -> body of the last clean MISS
    kin,        \* cache key computation: the pair of requests given
    kout,       \* cache key computation: the pair of keys computed, or <<>>
    provider,   \* BulkURLUpload: the configured storage provider
    urls,       \* BulkURLUpload: input.URLs
    loopI,      \* BulkURLUpload: the loop index of the spawning loop (1-based)
    mainPc,     \* BulkURLUpload: position of the handler's own goroutine
    sem,        \* BulkURLUpload: number of tokens in the channel sem
    wg,         \* BulkURLUpload: the WaitGroup counter
    pc,         \* BulkURLUpload: position of each item's goroutine
    item,       \* BulkURLUpload: each goroutine's locals (fileID, tags, result)
    results,    \* BulkURLUpload: the results slice
    response,   \* BulkURLUpload: the JSON response, once written
    reordered,   \* BulkURLUpload: an item has finished after a later item of the batch
    nextFid,    \* SeaweedFS: the next file id the master assigns
    pending,    \* S3: the multipart uploads created and neither completed nor aborted
    issued,     \* Storage: object ref -> the content it was returned for by Upload
    last,       \* Storage: the last call, with its outcome and the state before it
    pin,        \* pure functions: the input given
    pout,       \* pure functions: the output computed, or <<>>
    clients,    \* websocket Manager: m.clients[userID], a slice header, or no entry
    heap,       \* websocket Manager: the backing arrays of the slices allocated
    run,        \* websocket Manager: position of Manager.run, the clients it has registered
    send        \* websocket Manager: position and locals of one SendNotification

vars == <<store, dbMedia, dbTags, resp, served, kin, kout, provider, urls, loopI,
          mainPc, sem, wg, pc, item, results, response, reordered, nextFid, pending,
          issued, last, pin, pout, clients, heap, run, send>>

transformVars == <<resp, served>>
keyVars == <<kin, kout>>
uploadVars == <<pending, issued, last>>
pureVars == <<pin, pout>>
wsVars == <<clients, heap, run, send>>
bulkVars ==
    <<provider, urls, loopI, mainPc, sem, wg, pc, item, results, response, reordered, nextFid>>

----------------------------------------------------------------------------
(* Bounds of the model. *)

\* the largest number of objects the store holds in the TransformMedia runs
MaxObjects == 5
\* the longest batch BulkURLUpload is given
MaxUrls == 6
----------------------------------------------------------------------------
(* Stored contents.  Content is a record: px names the pixels (the source   *)
(* and the operations applied to it), w and h are the raster's dimensions, *)
(* fmt the encoding and q the JPEG quality it was encoded with (0 when the *)
(* bytes are as uploaded).                                                 *)

Content(px, w, h, fmt, q) == [px |-> px, w |-> w, h |-> h, fmt |-> fmt, q |-> q]

NoContent == Content(<<>>, 0, 0, "", 0)

Max(a, b) == IF a >= b THEN a ELSE b

----------------------------------------------------------------------------
(* Query parameters.  A numeric parameter arrives as text: a sequence of   *)
(* characters.                                                             *)

Digits == <<"0", "1", "2", "3", "4", "5", "6", "7", "8", "9">>

IsDigit(c) == \E d \in 1..10 : Digits[d] = c

DigitVal(c) == (CHOOSE d \in 1..10 : Digits[d] = c) - 1

RECURSIVE DigitsVal(_, _)
DigitsVal(s, acc) ==
    IF s = <<>> THEN acc ELSE DigitsVal(Tail(s), acc * 10 + DigitVal(Head(s)))

\* strconv.Atoi: an optional sign, then one or more decimal digits
Atoi(s) ==
    LET signed == s # <<>> /\ Head(s) \in {"+", "-"}
        body == IF signed THEN Tail(s) ELSE s
        ok == body # <<>> /\ \A i \in 1..Len(body) : IsDigit(body[i])
        mag == IF ok THEN DigitsVal(body, 0) ELSE 0
    IN  [err |-> ~ok,
         num |-> IF signed /\ Head(s) = "-" THEN 0 - mag ELSE mag]

ParseIntOption(value) ==
    IF value = <<>> THEN 0
    ELSE LET r == Atoi(value) IN IF r.err THEN 0 ELSE r.num

\* the TransformationOptions a handler builds from the query
ParseOptions(q) ==
    [Width   |-> ParseIntOption(q.width),
     Height  |-> ParseIntOption(q.height),
     Fit     |-> q.fit,
     Crop    |-> q.crop,
     Quality |-> ParseIntOption(q.quality),
     Format  |-> q.format,
     Preset  |-> q.preset,
     Fresh   |-> q.fresh = "true"]

----------------------------------------------------------------------------
(* TransformationOptions.Validate and ApplyPreset.                         *)

maxDimension == 16384

\* Validate without the upper limit of quality
ValidateQualityUnbounded(t) ==
    IF t.Width < 0 \/ t.Height < 0
    THEN "width and height must be non-negative"
    ELSE IF t.Width > 16384 \/ t.Height > 16384
    THEN "maximum allowed dimension is 16384 pixels"
    ELSE IF t.Fit # "" /\ t.Fit # "contain" /\ t.Fit # "cover" /\ t.Fit # "fill"
    THEN "invalid fit mode: " \o t.Fit
    ELSE IF t.Crop # "" /\ t.Crop # "center" /\ t.Crop # "top" /\ t.Crop # "bottom"
            /\ t.Crop # "left" /\ t.Crop # "right"
    THEN "invalid crop position: " \o t.Crop
    ELSE IF t.Quality < 0
    THEN "quality must be between 0 and 100"
    ELSE IF t.Format # "" /\ t.Format # "jpeg" /\ t.Format # "jpg" /\ t.Format # "png"
            /\ t.Format # "webp"
    THEN "unsupported format: " \o t.Format
    ELSE ""

\* the error Validate returns, "" for nil
Validate(t) ==
    IF t.Width < 0 \/ t.Height < 0
    THEN "width and height must be non-negative"
    ELSE IF t.Width > maxDimension \/ t.Height > maxDimension
    THEN "maximum allowed dimension is " \o ToString(maxDimension) \o " pixels"
    ELSE IF t.Fit # "" /\ t.Fit # "contain" /\ t.Fit # "cover" /\ t.Fit # "fill"
    THEN "invalid fit mode: " \o t.Fit
    ELSE IF t.Crop # "" /\ t.Crop # "center" /\ t.Crop # "top" /\ t.Crop # "bottom"
            /\ t.Crop # "left" /\ t.Crop # "right"
    THEN "invalid crop position: " \o t.Crop
    ELSE IF t.Quality < 0 \/ t.Quality > 100
    THEN "quality must be between 0 and 100"
    ELSE IF t.Format # "" /\ t.Format # "jpeg" /\ t.Format # "jpg" /\ t.Format # "png"
            /\ t.Format # "webp"
    THEN "unsupported format: " \o t.Format
    ELSE ""

WithPreset(o, w, h, fit, q) ==
    [o EXCEPT !.Width = w, !.Height = h, !.Fit = fit, !.Quality = q]

\* ApplyPreset with another quality for the thumbnail preset
ApplyPresetThumbnailQuality(options, preset) ==
    CASE preset = "thumbnail" -> [err |-> "", options |-> WithPreset(options, 150, 150, "cover", 85)]
      [] preset = "social"    -> [err |-> "", options |-> WithPreset(options, 1200, 630, "contain", 85)]
      [] preset = "avatar"    -> [err |-> "", options |-> WithPreset(options, 300, 300, "cover", 85)]
      [] preset = "banner"    -> [err |-> "", options |-> WithPreset(options, 1920, 400, "cover", 90)]
      [] OTHER                -> [err |-> "unknown preset: " \o preset, options |-> options]

\* ApplyPreset: the error it returns ("" for nil) and the options it leaves
ApplyPreset(options, preset) ==
    CASE preset = "thumbnail" -> [err |-> "", options |-> WithPreset(options, 150, 150, "cover", 80)]
      [] preset = "social"    -> [err |-> "", options |-> WithPreset(options, 1200, 630, "contain", 85)]
      [] preset = "avatar"    -> [err |-> "", options |-> WithPreset(options, 300, 300, "cover", 85)]
      [] preset = "banner"    -> [err |-> "", options |-> WithPreset(options, 1920, 400, "cover", 90)]
      [] OTHER                -> [err |-> "unknown preset: " \o preset, options |-> options]

----------------------------------------------------------------------------
(* TransformImage.  The imaging library's Fit, Fill, Resize and CropAnchor  *)
(* are modelled by the dimensions of the raster they return.               *)

\* imaging.Resize: a zero dimension is computed from the other, at least 1
imagingResize(img, w, h) ==
    IF w < 0 \/ h < 0 \/ (w = 0 /\ h = 0) \/ img.w <= 0 \/ img.h <= 0
    THEN [w |-> 0, h |-> 0]
    ELSE [w |-> IF w = 0 THEN Max(1, (2 * h * img.w + img.h) \div (2 * img.h)) ELSE w,
          h |-> IF h = 0 THEN Max(1, (2 * w * img.h + img.w) \div (2 * img.w)) ELSE h]

\* imaging.Fit: scales down to fit the box; an image that fits is returned as it is
imagingFit(img, w, h) ==
    IF w <= 0 \/ h <= 0 \/ img.w <= 0 \/ img.h <= 0 THEN [w |-> 0, h |-> 0]
    ELSE IF img.w <= w /\ img.h <= h THEN [w |-> img.w, h |-> img.h]
    ELSE IF img.w * h > w * img.h
         THEN imagingResize(img, w, (w * img.h) \div img.w)
         ELSE imagingResize(img, (h * img.w) \div img.h, h)

\* imaging.Fill: resizes and crops to exactly the box
imagingFill(img, w, h) ==
    IF w <= 0 \/ h <= 0 \/ img.w <= 0 \/ img.h <= 0 THEN [w |-> 0, h |-> 0]
    ELSE [w |-> w, h |-> h]

\* the format image.Decode reports, "" when the bytes do not decode
DecodedFormat(src) == IF src.fmt \in {"jpeg", "png", "gif"} THEN src.fmt ELSE ""

\* target dimensions (lines 100-112): a missing one keeps the aspect ratio
TargetDims(src, options) ==
    IF options.Width = 0
    THEN [w |-> (src.w * options.Height) \div src.h, h |-> options.Height]
    ELSE IF options.Height = 0
    THEN [w |-> options.Width, h |-> (src.h * options.Width) \div src.w]
    ELSE [w |-> options.Width, h |-> options.Height]

\* the resize step (lines 98-132); resized is FALSE while transformed is nil
ResizeStep(src, options) ==
    IF options.Width > 0 \/ options.Height > 0
    THEN LET t == TargetDims(src, options)
             d == CASE options.Fit = "contain" -> imagingFit(src, t.w, t.h)
                    [] options.Fit = "cover"   -> imagingFill(src, t.w, t.h)
                    [] options.Fit = "fill"    -> imagingResize(src, t.w, t.h)
                    [] OTHER                   -> imagingFit(src, t.w, t.h)
         IN  [resized |-> TRUE, w |-> d.w, h |-> d.h,
              px |-> Append(src.px, IF options.Fit = "" THEN "contain" ELSE options.Fit)]
    ELSE [resized |-> FALSE, w |-> src.w, h |-> src.h, px |-> src.px]

\* the crop step (lines 137-179) on a non-nil raster
CropStep(r, options) ==
    IF options.Crop # ""
    THEN LET cw == IF options.Width = 0 \/ options.Width > r.w THEN r.w ELSE options.Width
             ch == IF options.Height = 0 \/ options.Height > r.h THEN r.h ELSE options.Height
         IN  [r EXCEPT !.w = cw, !.h = ch, !.px = Append(r.px, "crop:" \o options.Crop)]
    ELSE r

\* the encode step (lines 181-215): error, or the encoded bytes
EncodeStep(r, format, options) ==
    LET outputFormat == IF options.Format = "" THEN format ELSE options.Format
    IN  CASE outputFormat \in {"jpeg", "jpg"} ->
               [err |-> "", data |-> Content(r.px, r.w, r.h, "jpeg",
                                             IF options.Quality = 0 THEN 85 ELSE options.Quality)]
          [] outputFormat = "png" ->
               [err |-> "", data |-> Content(r.px, r.w, r.h, "png", 0)]
          [] outputFormat = "webp" ->
               [err |-> "webp format not yet supported", data |-> NoContent]
          [] OTHER ->
               [err |-> "", data |-> Content(r.px, r.w, r.h, "jpeg", 85)]

\* TransformImage with the pass-through taken only when quality is unset too
TransformImageRequiresNoQuality(src, options) ==
    IF options.Width = 0 /\ options.Height = 0 /\ options.Fit = "" /\ options.Crop = ""
       /\ options.Format = "" /\ options.Quality = 0
    THEN [err |-> "", data |-> src]
    ELSE IF DecodedFormat(src) = ""
    THEN [err |-> "failed to decode image", data |-> NoContent]
    ELSE LET r == ResizeStep(src, options)
         IN  IF ~r.resized
             THEN [err |-> "panic", data |-> NoContent]
             ELSE EncodeStep(CropStep(r, options), DecodedFormat(src), options)

\* TransformImage: err is "" for nil and "panic" for a nil raster dereferenced
TransformImage(src, options) ==
    IF options.Width = 0 /\ options.Height = 0 /\ options.Fit = "" /\ options.Crop = ""
       /\ options.Format = ""
    THEN [err |-> "", data |-> src]
    ELSE IF DecodedFormat(src) = ""
    THEN [err |-> "failed to decode image", data |-> NoContent]
    ELSE LET r == ResizeStep(src, options)
         IN  IF ~r.resized
             THEN [err |-> "panic", data |-> NoContent]
             ELSE EncodeStep(CropStep(r, options), DecodedFormat(src), options)

----------------------------------------------------------------------------
(* The storage provider as TransformMedia uses it: Download and            *)
(* UploadBytes.  fail is TRUE when the backend fails the call.             *)

Download(st, ref, fail) ==
    IF fail THEN [err |-> "BackendUnavailable", data |-> NoContent]
    ELSE IF ref \notin DOMAIN st THEN [err |-> "NotFound", data |-> NoContent]
    ELSE [err |-> "", data |-> st[ref]]

\* st with data stored under name
Put(st, name, data) ==
    [k \in DOMAIN st \cup {name} |-> IF k = name THEN data ELSE st[k]]

UploadBytes(st, data, name, fail) ==
    IF fail THEN [err |-> "BackendUnavailable", store |-> st]
    ELSE [err |-> "", store |-> Put(st, name, data)]

----------------------------------------------------------------------------
(* TransformMedia.                                                         *)

\* the response a handler writes; xcache and cacheControl are "" when not set
Response(status, error, xcache, cacheControl, contentType, body) ==
    [status |-> status, error |-> error, xcache |-> xcache,
     cacheControl |-> cacheControl, contentType |-> contentType, body |-> body]

JSONError(status, error) == Response(status, error, "", "", "application/json", NoContent)

\* a panic in the handler: gin's Recovery middleware answers 500
Recovered == Response(500, "panic", "", "", "", NoContent)

CacheKeyWithoutQuality(id, options) ==
    id \o "_w" \o ToString(options.Width) \o "_h" \o ToString(options.Height)
       \o "_f" \o options.Fit \o "_c" \o options.Crop \o "_" \o options.Format

\* fmt.Sprintf("%s_w%d_h%d_f%s_c%s_q%d_%s", ...)
CacheKey(id, options) ==
    id \o "_w" \o ToString(options.Width) \o "_h" \o ToString(options.Height)
       \o "_f" \o options.Fit \o "_c" \o options.Crop
       \o "_q" \o ToString(options.Quality) \o "_" \o options.Format

LooksUpCacheAlways(options) == TRUE

\* whether the handler looks the cache key up
LooksUpCache(options) == ~options.Fresh

HitResponseEmpty(media, data) == Response(200, "", "HIT", "", media.MimeType, NoContent)

\* a cached version is served
HitResponse(media, data) == Response(200, "", "HIT", "", media.MimeType, data)

\* the content type of a transformed image
ContentType(media, options) ==
    IF options.Format # ""
    THEN CASE options.Format = "png"  -> "image/png"
           [] options.Format = "webp" -> "image/webp"
           [] OTHER                   -> "image/jpeg"
    ELSE media.MimeType

MissResponseAsHit(media, options, transformed) ==
    Response(200, "", "HIT", "public, max-age=31536000",
             ContentType(media, options), transformed)

\* the transformed image is served
MissResponse(media, options, transformed) ==
    Response(200, "", "MISS", "public, max-age=31536000",
             ContentType(media, options), transformed)

\* from the cache lookup on (lines 644-694): the response and the store left
ServeTransformed(st, media, options, orig, f) ==
    LET cacheKey == CacheKey(media.ID, options)
        cached == Download(st, cacheKey, f.cache)
    IN  IF LooksUpCache(options) /\ cached.err = ""
        THEN IF f.read
             THEN [resp |-> JSONError(500, "Failed to read cached file"), store |-> st]
             ELSE [resp |-> HitResponse(media, cached.data), store |-> st]
        ELSE LET t == TransformImage(orig, options)
             IN  IF t.err = "panic" THEN [resp |-> Recovered, store |-> st]
                 ELSE IF t.err # ""
                 THEN [resp |-> JSONError(500, "Failed to transform image"), store |-> st]
                 ELSE LET up == UploadBytes(st, t.data, cacheKey, f.put)
                      IN  IF up.err # ""
                          THEN [resp |-> JSONError(500, "Failed to save transformed image"),
                                store |-> st]
                          ELSE [resp |-> MissResponse(media, options, t.data),
                                store |-> up.store]

\* the options the handler goes on with: validated, the preset applied
ResolveOptions(q) ==
    LET parsed == ParseOptions(q)
        verr == Validate(parsed)
        ap == ApplyPreset(parsed, parsed.Preset)
    IN  IF verr # "" THEN [err |-> "Invalid transformation parameters", options |-> parsed]
        ELSE IF parsed.Preset # "" /\ ap.err # ""
        THEN [err |-> "Invalid preset", options |-> parsed]
        ELSE [err |-> "", options |-> IF parsed.Preset # "" THEN ap.options ELSE parsed]

\* strings.HasPrefix(media.MimeType, "image/")
IsImageMime(mime) == mime \in {"image/jpeg", "image/png", "image/gif", "image/webp"}

\* the whole handler, ro being ResolveOptions of its query: the response and
\* the store left
HandleTransformMedia(st, db, userID, mediaID, ro, f) ==
    IF mediaID \notin DOMAIN db
    THEN [resp |-> JSONError(404, "Media not found"), store |-> st]
    ELSE IF db[mediaID].UserID # userID
    THEN [resp |-> JSONError(403, "Access denied"), store |-> st]
    ELSE IF ~IsImageMime(db[mediaID].MimeType)
    THEN [resp |-> JSONError(400, "Media is not an image"), store |-> st]
    ELSE IF ro.err # ""
    THEN [resp |-> JSONError(400, ro.err), store |-> st]
    ELSE IF Download(st, db[mediaID].Path, f.orig).err # ""
    THEN [resp |-> JSONError(500, "Failed to read original file"), store |-> st]
    ELSE ServeTransformed(st, db[mediaID], ro.options,
                          Download(st, db[mediaID].Path, f.orig).data, f)

----------------------------------------------------------------------------
(* The media the TransformMedia runs start with, and the requests made.    *)

MediaRow(id, userID, filename, mime, size) ==
    [ID |-> id, UserID |-> userID, Path |-> id, Filename |-> filename, MimeType |-> mime,
     Size |-> size]

InitMedia ==
    [id \in {"m1", "m2", "m3", "m4"} |->
        CASE id = "m1" -> MediaRow(id, 1, "a.jpg", "image/jpeg", 1)
          [] id = "m2" -> MediaRow(id, 1, "b.png", "image/png", 1)
          [] id = "m3" -> MediaRow(id, 2, "c.jpg", "image/jpeg", 1)
          [] id = "m4" -> MediaRow(id, 1, "d.pdf", "application/pdf", 1)]

\* the authenticated user: the owner of m1
ThisUser == InitMedia["m1"].UserID

InitStore ==
    [k \in {"m1", "m2", "m3", "m4"} |->
        CASE k = "m1" -> Content(<<"m1">>, 400, 300, "jpeg", 0)
          [] k = "m2" -> Content(<<"m2">>, 100, 200, "png", 0)
          [] k = "m3" -> Content(<<"m3">>, 400, 300, "jpeg", 0)
          [] k = "m4" -> Content(<<"m4">>, 0, 0, "pdf", 0)]

Query(width, height, fit, crop, quality, format, preset, fresh) ==
    [width |-> width, height |-> height, fit |-> fit, crop |-> crop,
     quality |-> quality, format |-> format, preset |-> preset, fresh |-> fresh]

EmptyQuery == Query(<<>>, <<>>, "", "", <<>>, "", "", "")

\* the queries of the TransformMedia runs: width, fit, preset and fresh in every
\* combination, and the thumbnail preset spelled out
Queries ==
    { Query(w, <<>>, fit, "", <<>>, "", preset, fresh) :
        w \in {<<>>, <<"1", "5", "0">>}, fit \in {"", "diagonal"},
        preset \in {"", "thumbnail", "bogus"}, fresh \in {"", "true"} }
    \cup
    { Query(<<"1", "5", "0">>, <<"1", "5", "0">>, "cover", "", <<"8", "0">>, "", "", fresh) :
        fresh \in {"", "true"} }

Faults(orig, cache, read, put) == [orig |-> orig, cache |-> cache, read |-> read, put |-> put]

NoFaults == Faults(FALSE, FALSE, FALSE, FALSE)

\* the backend failures injected into one request: none, or one call
FaultChoices ==
    {NoFaults, Faults(TRUE, FALSE, FALSE, FALSE), Faults(FALSE, TRUE, FALSE, FALSE),
     Faults(FALSE, FALSE, TRUE, FALSE), Faults(FALSE, FALSE, FALSE, TRUE)}

\* what the cache key is made of, besides the media id
SpecFields(o) == <<o.Width, o.Height, o.Fit, o.Crop, o.Quality, o.Format>>

\* no earlier MISS
NoMiss == [body |-> NoContent, fresh |-> FALSE, over |-> FALSE, preset |-> ""]

NoRequest ==
    [id |-> "", options |-> ParseOptions(EmptyQuery), valid |-> FALSE, f |-> NoFaults,
     cachedBefore |-> FALSE, prior |-> NoMiss, out |-> JSONError(0, "")]

\* the requests of the TransformMedia runs: each query with its resolved options
Requests == { [q |-> q, ro |-> ResolveOptions(q)] : q \in Queries }

EmptyRequest == [q |-> EmptyQuery, ro |-> ResolveOptions(EmptyQuery)]

\* one TransformMedia request.  resp keeps what it was given and what it
\* answered; served keeps, for each media id and spec, the last MISS served
\* with no backend failure: its body, whether it was a fresh request, whether
\* it replaced a cache entry and the preset it named
TransformMedia(mediaID, rq, f) ==
    \E r \in {HandleTransformMedia(store, dbMedia, ThisUser, mediaID, rq.ro, f)},
       k \in {<<mediaID, SpecFields(rq.ro.options)>>},
       had \in {(mediaID \in DOMAIN dbMedia) /\ (CacheKey(mediaID, rq.ro.options) \in DOMAIN store)} :
        /\ Cardinality(DOMAIN r.store) <= MaxObjects
        /\ store' = r.store
        /\ resp' = [id |-> mediaID, options |-> rq.ro.options, valid |-> rq.ro.err = "",
                    f |-> f, cachedBefore |-> had,
                    prior |-> IF k \in DOMAIN served THEN served[k] ELSE NoMiss,
                    out |-> r.resp]
        /\ served' = IF r.resp.status = 200 /\ r.resp.xcache = "MISS" /\ f = NoFaults
                     THEN [x \in DOMAIN served \cup {k} |->
                              IF x = k
                              THEN [body |-> r.resp.body, fresh |-> rq.ro.options.Fresh,
                                    over |-> had, preset |-> rq.ro.options.Preset]
                              ELSE served[x]]
                     ELSE served
        /\ UNCHANGED <<dbMedia, dbTags, keyVars, bulkVars, uploadVars, pureVars, wsVars>>

\* requests for one image of the user, with and without backend failures
TransformImageRequest ==
    \E rq \in Requests, f \in FaultChoices : TransformMedia("m1", rq, f)

\* requests for another image of the user
TransformSecondImageRequest ==
    \E rq \in Requests : TransformMedia("m2", rq, NoFaults)

\* requests for media that is missing, another user's or not an image
TransformOtherRequest ==
    \E mediaID \in {"m3", "m4", "gone"} : TransformMedia(mediaID, EmptyRequest, NoFaults)

IdleBulk ==
    /\ provider = "s3"
    /\ urls = <<>>
    /\ loopI = 1
    /\ mainPc = "idle"
    /\ sem = 0
    /\ wg = 0
    /\ pc = <<>>
    /\ item = <<>>
    /\ results = <<>>
    /\ response = <<>>
    /\ reordered = FALSE
    /\ nextFid = 1

IdleKey ==
    /\ kin = <<>>
    /\ kout = <<>>

IdleUpload ==
    /\ pending = {}
    /\ issued = <<>>
    /\ last = <<>>

\* no websocket client, no notification
NoSlice == [array |-> 0, len |-> 0]

IdleWs ==
    /\ clients = NoSlice
    /\ heap = <<>>
    /\ run = [at |-> "select", j |-> 0, opened |-> {}]
    /\ send = [at |-> "idle"]

IdlePure ==
    /\ pin = <<>>
    /\ pout = <<>>

InitTransform ==
    /\ store = InitStore
    /\ dbMedia = InitMedia
    /\ dbTags = {}
    /\ resp = NoRequest
    /\ served = <<>>
    /\ IdleKey
    /\ IdleBulk
    /\ IdleUpload
    /\ IdlePure
    /\ IdleWs

NextTransform ==
    TransformImageRequest \/ TransformSecondImageRequest \/ TransformOtherRequest

SpecTransform == InitTransform /\ [][NextTransform]_vars

----------------------------------------------------------------------------
(* The cache key as a function of the request: two requests are resolved   *)
(* and the key of each is built as TransformMedia builds it.               *)

\* the requests whose keys are compared: every field of the key varies, over
\* media ids of which one continues the other with text a key could hold
KeyQueries ==
    { Query(w, h, fit, crop, q, format, preset, "") :
        w \in {<<>>, <<"1">>, <<"1", "1">>}, h \in {<<>>, <<"1">>},
        fit \in {"", "fill"}, crop \in {"", "top"}, q \in {<<>>, <<"1">>},
        format \in {"", "png"}, preset \in {"", "thumbnail"} }

KeyRequests ==
    { [id |-> id, q |-> q, ro |-> ResolveOptions(q)] :
        id \in {"m1", "m1_w1_h0"}, q \in KeyQueries }
    \cup
    { [id |-> "m1", q |-> q, ro |-> ResolveOptions(q)] :
        q \in {Query(<<"-", "1">>, <<>>, "", "", <<>>, "", "", "")} }

\* the key TransformMedia builds for a request, "" when it rejects the request
KeyFor(rq) == IF rq.ro.err = "" THEN CacheKey(rq.id, rq.ro.options) ELSE ""

InitKey ==
    /\ kin \in KeyRequests \X KeyRequests
    /\ kout = <<>>
    /\ store = InitStore
    /\ dbMedia = InitMedia
    /\ dbTags = {}
    /\ resp = NoRequest
    /\ served = <<>>
    /\ IdleBulk
    /\ IdleUpload
    /\ IdlePure
    /\ IdleWs

ComputeCacheKeys ==
    /\ kout = <<>>
    /\ kout' = <<KeyFor(kin[1]), KeyFor(kin[2])>>
    /\ UNCHANGED <<store, dbMedia, dbTags, transformVars, kin, bulkVars, uploadVars, pureVars, wsVars>>

NextKey == ComputeCacheKeys

SpecKey == InitKey /\ [][NextKey]_vars

\* the seven fields the key is made of
KeyFields(rq) == <<rq.id>> \o SpecFields(rq.ro.options)

\* C5: after validation and preset expansion, two requests get the same cache
\* key if and only if media id, width, height, fit, crop, quality and format
\* are all equal.
C5_CacheKeyInjective ==
    (kout # <<>> /\ kin[1].ro.err = "" /\ kin[2].ro.err = "")
    => ((kout[1] = kout[2]) <=> (KeyFields(kin[1]) = KeyFields(kin[2])))

\* two valid requests that differ in the quality alone, with different keys
C5_Witness ==
    /\ kout # <<>>
    /\ kin[1].ro.err = ""
    /\ kin[2].ro.err = ""
    /\ kin[1].id = kin[2].id
    /\ kin[1].ro.options.Quality # kin[2].ro.options.Quality
    /\ [kin[1].ro.options EXCEPT !.Quality = 0] = [kin[2].ro.options EXCEPT !.Quality = 0]
    /\ kout[1] # kout[2]

\* a TransformationOptions value
Options(width, height, fit, crop, quality, format, preset, fresh) ==
    [Width |-> width, Height |-> height, Fit |-> fit, Crop |-> crop, Quality |-> quality,
     Format |-> format, Preset |-> preset, Fresh |-> fresh]

\* the values preset gives to the fields of a spec that sets none
PresetValues(preset) ==
    ApplyPreset(Options(0, 0, "", "", 0, "", preset, FALSE), preset).options

\* the spec of a request by the rule of precedence: the fields given are kept,
\* the preset gives the others
ExplicitFirst(q) ==
    LET given == ParseOptions(q)
        p == PresetValues(given.Preset)
    IN  [given EXCEPT !.Width = IF @ # 0 THEN @ ELSE p.Width,
                      !.Height = IF @ # 0 THEN @ ELSE p.Height,
                      !.Fit = IF @ # "" THEN @ ELSE p.Fit,
                      !.Quality = IF @ # 0 THEN @ ELSE p.Quality]

\* C19: with a preset and explicit width, height, fit or quality, the spec used
\* for the transform and the cache key keeps every field given and takes the
\* preset's value for the others
C19_ExplicitFieldsOverPreset ==
    kout # <<>> =>
        \A i \in {1, 2} :
            kin[i].ro.err = "" /\ kin[i].q.preset # "" =>
                /\ kin[i].ro.options = ExplicitFirst(kin[i].q)
                /\ kout[i] = CacheKey(kin[i].id, ExplicitFirst(kin[i].q))

----------------------------------------------------------------------------
(* TransformMedia: the claims.                                             *)

\* the last request was answered with the image
Served == resp.out.status = 200

\* the last request's original: the handler downloaded it
OriginalOf(r) == store[dbMedia[r.id].Path]

\* the last request is for an image of the user with a valid spec, and the
\* transformation of its original succeeds
Transformable ==
    /\ resp.id \in DOMAIN dbMedia
    /\ dbMedia[resp.id].UserID = ThisUser
    /\ IsImageMime(dbMedia[resp.id].MimeType)
    /\ resp.valid
    /\ TransformImage(OriginalOf(resp), resp.options).err = ""

\* C1: a fresh=false request whose (media id, spec) was served as a MISS before,
\* all storage calls succeeding both times, is served as a HIT with the bytes
\* the MISS returned.
C1_SecondRequestIsHit ==
    (/\ resp.valid
     /\ ~resp.options.Fresh
     /\ resp.f = NoFaults
     /\ resp.prior # NoMiss
     /\ ~resp.prior.fresh)
    => (/\ Served
        /\ resp.out.xcache = "HIT"
        /\ resp.out.body = resp.prior.body)

C1_Witness ==
    /\ resp.valid
    /\ ~resp.options.Fresh
    /\ resp.f = NoFaults
    /\ resp.prior # NoMiss
    /\ ~resp.prior.fresh
    /\ resp.out.xcache = "HIT"
    /\ resp.options.Width = 150

\* C2: a fresh=true request is never answered from the cache and never fails on
\* the cache read path: when served it is a MISS, also when an entry exists; what
\* it serves is then stored under its cache key, and a later fresh=false request
\* for the same (media id, spec) is a HIT with those bytes.
C2_FreshBypassesAndPopulates ==
    /\ (resp.valid /\ resp.options.Fresh)
       => (/\ resp.out.xcache # "HIT"
           /\ resp.out.error # "Failed to read cached file"
           /\ (Transformable /\ ~resp.f.orig /\ ~resp.f.put)
              => (/\ Served
                  /\ resp.out.xcache = "MISS"
                  /\ CacheKey(resp.id, resp.options) \in DOMAIN store
                  /\ store[CacheKey(resp.id, resp.options)] = resp.out.body))
    /\ (resp.valid /\ ~resp.options.Fresh /\ resp.f = NoFaults /\ resp.prior.fresh)
       => (/\ Served
           /\ resp.out.xcache = "HIT"
           /\ resp.out.body = resp.prior.body)

\* a HIT on what a fresh request stored over an existing entry
C2_Witness ==
    /\ resp.valid
    /\ ~resp.options.Fresh
    /\ resp.f = NoFaults
    /\ resp.prior.fresh
    /\ resp.prior.over
    /\ resp.out.xcache = "HIT"

\* C3: when the original was downloaded and the transform succeeded, a failing
\* UploadBytes does not fail the request: the computed bytes are served.
C3_CacheWriteFailureNotPropagated ==
    (/\ Transformable
     /\ resp.f.put
     /\ (resp.options.Fresh \/ ~resp.cachedBefore))
    => (/\ Served
        /\ resp.out.body = TransformImage(OriginalOf(resp), resp.options).data)

\* C4: a failure on the cache read path of a fresh=false request (the Download
\* of the cache key failing, or the read of the cached stream failing) is a
\* MISS: the original is transformed and served.
C4_CacheReadFailureIsMiss ==
    (/\ Transformable
     /\ ~resp.options.Fresh
     /\ (resp.f.cache \/ (resp.f.read /\ resp.cachedBefore)))
    => (/\ Served
        /\ resp.out.xcache = "MISS"
        /\ resp.out.body = TransformImage(OriginalOf(resp), resp.options).data)

\* C6: every image served says HIT or MISS and carries the cache-control
\* directive of its freshness flag: long-lived when fresh=false, no-store when
\* fresh=true.
C6_CacheHeaders ==
    Served
    => (/\ resp.out.xcache \in {"HIT", "MISS"}
        /\ resp.out.cacheControl =
              IF resp.options.Fresh THEN "no-cache, no-store, must-revalidate"
              ELSE "public, max-age=31536000")

----------------------------------------------------------------------------
(* BulkURLUpload: the remote origins, the storage backends and the steps   *)
(* of processURLUpload.  Sizes are in megabytes.                           *)

\* cfg.Storage.MaxUploadSize, the default of MAX_UPLOAD_SIZE
MaxUploadSizeMB == 10

maxConcurrent == 5

\* what client.Get(url) meets: a transport error (the 60s timeout), or a status
\* with the declared Content-Length (0 when absent) and the size of the body
Remote(url) ==
    CASE url \in {"a", "b", "c", "d", "e", "f", "g", "h"} ->
            [err |-> FALSE, status |-> 200, declared |-> 3, size |-> 3]
      [] url = "missing" -> [err |-> FALSE, status |-> 404, declared |-> 1, size |-> 1]
      [] url = "stuck"   -> [err |-> TRUE, status |-> 0, declared |-> 0, size |-> 0]
      [] url = "huge"    -> [err |-> FALSE, status |-> 200, declared |-> 11, size |-> 11]
      [] url = "liar"    -> [err |-> FALSE, status |-> 200, declared |-> 0, size |-> 11]
      [] url = "empty"   -> [err |-> FALSE, status |-> 200, declared |-> 0, size |-> 0]
      [] OTHER           -> [err |-> FALSE, status |-> 404, declared |-> 1, size |-> 1]

URLUploadRequest(url, filename, tags) == [URL |-> url, Filename |-> filename, Tags |-> tags]

\* the filename of an item: the one given, or the base of the URL's path
FilenameOf(urlReq) == IF urlReq.Filename = "" THEN urlReq.URL ELSE urlReq.Filename

\* the body downloaded from url, as stored
BodyOf(url) == Content(<<url>>, 0, 0, "bin", 0)

\* the size of what an internal URL returns: the object, or the backend's
\* not-found document
SizeAt(st, fileID) == IF fileID \in DOMAIN st THEN Remote(st[fileID].px[1]).size ELSE 1

\* the key S3Storage.Upload stores a file under
S3Key(filename) == "uploads/" \o filename

\* the file id the SeaweedFS master assigns
SeaweedFid(n) == "fid" \o ToString(n)

\* Upload fails: the backend is down for this name
Refuses(filename) == filename = "refused"

\* the object ref Upload returns
UploadRef(prov, filename, n) == IF prov = "s3" THEN S3Key(filename) ELSE SeaweedFid(n)

\* Delete: the object is gone afterwards; the caller drops the error
Delete(st, ref) == [k \in DOMAIN st \ {ref} |-> st[k]]

Result(url, success, error, mediaID, filename) ==
    [url |-> url, success |-> success, error |-> error, media_id |-> mediaID,
     filename |-> filename]

Failure(url, error) == Result(url, FALSE, error, "", "")

\* a slot of results not written yet
NoResult == Result("", FALSE, "nil", "", "")

NewItem == [fileID |-> "", size |-> 0, tagIdx |-> 1, result |-> NoResult]

SemAlwaysHasRoom(s) == TRUE

\* a send on sem goes through while the channel holds fewer than its capacity
SemHasRoom(s) == s < maxConcurrent

ReleaseSemLeak(s) == s

\* a receive from sem
ReleaseSem(s) == s - 1

ResultSlotAppend(i, written) == written + 1

\* the slot of results goroutine i writes, written slots being filled already
ResultSlot(i, written) == i

N == Len(urls)

\* the positions inside processURLUpload
InProcess == {"get", "stored", "tags", "tagcreate", "create"}

\* processURLUpload returns result
Return(i, result) ==
    /\ item' = [item EXCEPT ![i].result = result]
    /\ pc' = [pc EXCEPT ![i] = "return"]

\* lines 119-189: the download, the checks on the response and the Upload
Fetch(i) ==
    /\ pc[i] = "get"
    /\ \E r \in {Remote(urls[i].URL)}, filename \in {FilenameOf(urls[i])} :
         IF r.err
         THEN /\ Return(i, Failure(urls[i].URL, "Failed to download"))
              /\ UNCHANGED <<store, nextFid>>
         ELSE IF r.status # 200
         THEN /\ Return(i, Failure(urls[i].URL, "Failed to download: status code"))
              /\ UNCHANGED <<store, nextFid>>
         ELSE IF r.declared > 0 /\ r.declared > MaxUploadSizeMB
         THEN /\ Return(i, Failure(urls[i].URL, "File too large"))
              /\ UNCHANGED <<store, nextFid>>
         ELSE IF Refuses(filename)
         THEN /\ Return(i, Failure(urls[i].URL, "Failed to upload file"))
              /\ UNCHANGED <<store, nextFid>>
         ELSE \E fileID \in {UploadRef(provider, filename, nextFid)} :
                /\ store' = Put(store, fileID, BodyOf(urls[i].URL))
                /\ nextFid' = IF provider = "s3" THEN nextFid ELSE nextFid + 1
                /\ item' = [item EXCEPT ![i].fileID = fileID]
                /\ pc' = [pc EXCEPT ![i] = "stored"]
    /\ UNCHANGED <<dbMedia, dbTags, transformVars, keyVars, uploadVars, pureVars, wsVars, provider, urls, loopI, mainPc,
                   sem, wg, results, response, reordered>>

\* lines 191-271: the file is fetched again by its internal URL and measured
Inspect(i) ==
    /\ pc[i] = "stored"
    /\ \E fileSize \in {SizeAt(store, item[i].fileID)} :
         IF fileSize > MaxUploadSizeMB
         THEN /\ store' = Delete(store, item[i].fileID)
              /\ Return(i, Failure(urls[i].URL, "File too large"))
         ELSE /\ item' = [item EXCEPT ![i].size = fileSize]
              /\ pc' = [pc EXCEPT ![i] = IF Len(urls[i].Tags) > 0 THEN "tags"
                                         ELSE "create"]
              /\ UNCHANGED store
    /\ UNCHANGED <<dbMedia, dbTags, transformVars, keyVars, uploadVars, pureVars, wsVars, provider, urls, loopI, mainPc,
                   sem, wg, results, response, reordered, nextFid>>

\* after tag number item[i].tagIdx: the next tag, or the record
AfterTag(i) ==
    /\ item' = [item EXCEPT ![i].tagIdx = @ + 1]
    /\ pc' = [pc EXCEPT ![i] = IF item[i].tagIdx < Len(urls[i].Tags) THEN "tags"
                               ELSE "create"]

\* line 279, FirstOrCreate: the SELECT
TagFind(i) ==
    /\ pc[i] = "tags"
    /\ IF urls[i].Tags[item[i].tagIdx] \in dbTags
       THEN AfterTag(i)
       ELSE /\ pc' = [pc EXCEPT ![i] = "tagcreate"]
            /\ UNCHANGED item
    /\ UNCHANGED <<store, dbMedia, dbTags, transformVars, keyVars, uploadVars, pureVars, wsVars, provider, urls, loopI,
                   mainPc, sem, wg, results, response, reordered, nextFid>>

\* lines 279-288, FirstOrCreate: the INSERT, which the unique name may refuse
TagCreate(i) ==
    /\ pc[i] = "tagcreate"
    /\ IF urls[i].Tags[item[i].tagIdx] \in dbTags
       THEN /\ store' = Delete(store, item[i].fileID)
            /\ Return(i, Failure(urls[i].URL, "Failed to process tags"))
            /\ UNCHANGED dbTags
       ELSE /\ dbTags' = dbTags \cup {urls[i].Tags[item[i].tagIdx]}
            /\ AfterTag(i)
            /\ UNCHANGED store
    /\ UNCHANGED <<dbMedia, transformVars, keyVars, uploadVars, pureVars, wsVars, provider, urls, loopI, mainPc, sem, wg,
                   results, response, reordered, nextFid>>

\* lines 313-358: the media record is created, its tags associated, the
\* transaction committed; the primary key ID may refuse the record
CreateRecord(i) ==
    /\ pc[i] = "create"
    /\ IF item[i].fileID \in DOMAIN dbMedia
       THEN /\ store' = Delete(store, item[i].fileID)
            /\ Return(i, Failure(urls[i].URL, "Failed to save media metadata"))
            /\ UNCHANGED dbMedia
       ELSE /\ dbMedia' = [k \in DOMAIN dbMedia \cup {item[i].fileID} |->
                              IF k = item[i].fileID
                              THEN MediaRow(item[i].fileID, ThisUser, FilenameOf(urls[i]),
                                            "application/octet-stream", item[i].size)
                              ELSE dbMedia[k]]
            /\ Return(i, Result(urls[i].URL, TRUE, "", item[i].fileID,
                                FilenameOf(urls[i])))
            /\ UNCHANGED store
    /\ UNCHANGED <<dbTags, transformVars, keyVars, uploadVars, pureVars, wsVars, provider, urls, loopI, mainPc, sem, wg,
                   results, response, reordered, nextFid>>

\* the results written so far
Written == Cardinality({j \in 1..N : results[j] # NoResult})

\* lines 91-94: results[i] = result, then the deferred receive from sem
Release(i) ==
    /\ pc[i] = "return"
    /\ results' = [results EXCEPT ![ResultSlot(i, Written)] = item[i].result]
    /\ sem' = ReleaseSem(sem)
    /\ pc' = [pc EXCEPT ![i] = "exit"]
    /\ reordered' = (reordered \/ \E j \in (i + 1)..N : results[j] # NoResult)
    /\ UNCHANGED <<store, dbMedia, dbTags, transformVars, keyVars, uploadVars, pureVars, wsVars, provider, urls, loopI,
                   mainPc, wg, item, response, nextFid>>

\* line 90: the deferred wg.Done()
Done(i) ==
    /\ pc[i] = "exit"
    /\ wg' = wg - 1
    /\ pc' = [pc EXCEPT ![i] = "done"]
    /\ UNCHANGED <<store, dbMedia, dbTags, transformVars, keyVars, uploadVars, pureVars, wsVars, provider, urls, loopI,
                   mainPc, sem, item, results, response, reordered, nextFid>>

----------------------------------------------------------------------------
(* BulkURLUpload: the handler's own goroutine.                             *)

JSONResponse(status, error, total, successCount, res) ==
    [status |-> status, error |-> error, total |-> total, success_count |-> successCount,
     results |-> res]

\* lines 51-54: an empty list is refused
RejectEmpty ==
    /\ mainPc = "start"
    /\ N = 0
    /\ response' = JSONResponse(400, "No URLs provided", 0, 0, <<>>)
    /\ mainPc' = "returned"
    /\ UNCHANGED <<store, dbMedia, dbTags, transformVars, keyVars, uploadVars, pureVars, wsVars, provider, urls, loopI,
                   sem, wg, pc, item, results, reordered, nextFid>>

\* lines 79-84: the semaphore, the wait group and the results slice
Begin ==
    /\ mainPc = "start"
    /\ N > 0
    /\ mainPc' = "loop"
    /\ UNCHANGED <<store, dbMedia, dbTags, transformVars, keyVars, uploadVars, pureVars, wsVars, provider, urls, loopI,
                   sem, wg, pc, item, results, response, reordered, nextFid>>

\* line 86: wg.Add(1)
Add ==
    /\ mainPc = "loop"
    /\ loopI <= N
    /\ wg' = wg + 1
    /\ mainPc' = "acquire"
    /\ UNCHANGED <<store, dbMedia, dbTags, transformVars, keyVars, uploadVars, pureVars, wsVars, provider, urls, loopI,
                   sem, pc, item, results, response, reordered, nextFid>>

\* lines 87-95: the send on sem, then the goroutine of item loopI is started
Acquire ==
    /\ mainPc = "acquire"
    /\ SemHasRoom(sem)
    /\ sem' = sem + 1
    /\ pc' = [pc EXCEPT ![loopI] = "get"]
    /\ loopI' = loopI + 1
    /\ mainPc' = "loop"
    /\ UNCHANGED <<store, dbMedia, dbTags, transformVars, keyVars, uploadVars, pureVars, wsVars, provider, urls, wg,
                   item, results, response, reordered, nextFid>>

\* lines 98-113: wg.Wait(), the count of successes and the response
WaitAndRespond ==
    /\ mainPc = "loop"
    /\ loopI > N
    /\ wg = 0
    /\ response' = JSONResponse(200, "", N,
                                Cardinality({j \in 1..N : results[j].success}), results)
    /\ mainPc' = "returned"
    /\ UNCHANGED <<store, dbMedia, dbTags, transformVars, keyVars, uploadVars, pureVars, wsVars, provider, urls, loopI,
                   sem, wg, pc, item, results, reordered, nextFid>>

----------------------------------------------------------------------------
(* BulkURLUpload: the batches imported.                                    *)

\* item k of a long batch: every fourth URL answers with a file of its own,
\* the others are missing
LongItem(k) ==
    IF k % 4 # 2 THEN URLUploadRequest("missing", "", <<>>)
    ELSE URLUploadRequest(<<"a", "b", "c", "d", "e", "f", "g", "h">>[((k - 1) % 8) + 1],
                          "", <<>>)

LongBatches == { [k \in 1..n |-> LongItem(k)] : n \in 0..MaxUrls }

\* the items of the short batches: two origins, given and derived filenames,
\* a tag, and origins that fail, serve nothing or serve more than the limit
ShortItems ==
    {URLUploadRequest("a", "", <<>>), URLUploadRequest("b", "a", <<>>),
     URLUploadRequest("a", "x", <<"t">>), URLUploadRequest("b", "y", <<"t">>),
     URLUploadRequest("missing", "", <<>>), URLUploadRequest("stuck", "", <<>>),
     URLUploadRequest("huge", "", <<>>), URLUploadRequest("liar", "", <<>>),
     URLUploadRequest("b", "refused", <<>>), URLUploadRequest("empty", "", <<>>),
     URLUploadRequest("liar", "a", <<>>)}

ShortBatches == { <<x, y>> : x \in ShortItems, y \in ShortItems }

InitBulk ==
    /\ provider \in {"s3", "seaweedfs"}
    /\ urls \in LongBatches \cup ShortBatches
    /\ loopI = 1
    /\ mainPc = "start"
    /\ sem = 0
    /\ wg = 0
    /\ pc = [k \in 1..Len(urls) |-> "queued"]
    /\ item = [k \in 1..Len(urls) |-> NewItem]
    /\ results = [k \in 1..Len(urls) |-> NoResult]
    /\ response = <<>>
    /\ reordered = FALSE
    /\ nextFid = 1
    /\ store = <<>>
    /\ dbMedia = <<>>
    /\ dbTags = {}
    /\ resp = NoRequest
    /\ served = <<>>
    /\ IdleKey
    /\ IdleUpload
    /\ IdlePure
    /\ IdleWs

NextBulk ==
    \/ RejectEmpty
    \/ Begin
    \/ Add
    \/ Acquire
    \/ WaitAndRespond
    \/ \E i \in 1..N : Fetch(i)
    \/ \E i \in 1..N : Inspect(i)
    \/ \E i \in 1..N : TagFind(i)
    \/ \E i \in 1..N : TagCreate(i)
    \/ \E i \in 1..N : CreateRecord(i)
    \/ \E i \in 1..N : Release(i)
    \/ \E i \in 1..N : Done(i)

SpecBulk == InitBulk /\ [][NextBulk]_vars

\* every goroutine that can take a step eventually takes one
FairBulk == InitBulk /\ [][NextBulk]_vars /\ WF_vars(NextBulk)

----------------------------------------------------------------------------
(* BulkURLUpload: the claims.                                              *)

Returned == mainPc = "returned" /\ N > 0

\* C7: a batch of N URLs returns exactly N result records, and record i is the
\* outcome of input URL i, whatever order the items finished in
C7_ResultsInInputOrder ==
    Returned =>
        /\ response.total = N
        /\ Len(response.results) = N
        /\ \A i \in 1..N : /\ response.results[i] = item[i].result
                           /\ response.results[i].url = urls[i].URL

\* a batch has returned in which an item finished after a later one, and it
\* succeeded where a later item failed or failed where a later one succeeded
C7_Witness ==
    /\ Returned
    /\ \E i, j \in 1..N : /\ i < j
                          /\ reordered
                          /\ response.results[i].success # response.results[j].success

\* the items between the start and the end of processURLUpload
InFlight == {i \in 1..N : pc[i] \in InProcess}

\* C8: at most 5 items are inside processURLUpload at any time, and the items
\* the loop has not reached have not started
C8_AtMostFiveInFlight ==
    /\ Cardinality(InFlight) <= maxConcurrent
    /\ \A i \in 1..N : i >= loopI => pc[i] = "queued"

\* five items are in flight while another one waits for a slot
C8_Witness ==
    /\ Cardinality(InFlight) = maxConcurrent
    /\ mainPc = "acquire"
    /\ loopI <= N
    /\ pc[loopI] = "queued"

\* imported alone, item i succeeds: its origin answers 200 with a file within
\* the limit, and the storage backend takes it
SucceedsAlone(i) ==
    /\ ~Remote(urls[i].URL).err
    /\ Remote(urls[i].URL).status = 200
    /\ Remote(urls[i].URL).size <= MaxUploadSizeMB
    /\ ~Refuses(FilenameOf(urls[i]))

\* C9: an item that would succeed alone succeeds in any batch, and keeps its
\* stored object and its media record, whatever its siblings do
C9_ItemsIndependent ==
    Returned =>
        \A i \in 1..N :
            SucceedsAlone(i) =>
                /\ response.results[i].success
                /\ response.results[i].media_id \in DOMAIN store
                /\ store[response.results[i].media_id] = BodyOf(urls[i].URL)
                /\ response.results[i].media_id \in DOMAIN dbMedia

\* C10: the batch always returns, and when it returns every one of its items
\* has completed
C10_ReturnsAfterAllComplete ==
    /\ <>(mainPc = "returned")
    /\ [](mainPc = "returned" => \A i \in 1..N : pc[i] = "done")

\* a batch of more than 5 items has returned, all of its items done, one of
\* them failed
C10_Witness ==
    /\ mainPc = "returned"
    /\ N > maxConcurrent
    /\ \A i \in 1..N : pc[i] = "done"
    /\ response.success_count < N

\* the origin of item i answers 200 with a body of no bytes
ZeroBytes(i) ==
    /\ ~Remote(urls[i].URL).err
    /\ Remote(urls[i].URL).status = 200
    /\ Remote(urls[i].URL).size = 0

\* the objects stored with the body downloaded from url
ObjectsOf(url) == {k \in DOMAIN store : store[k] = BodyOf(url)}

\* the media records of the objects stored for item i
RecordsOf(i) == {k \in DOMAIN dbMedia : k = item[i].fileID /\ item[i].fileID # ""}

\* C11: an item whose download yields zero bytes is reported with success=false,
\* and no stored object and no media record remain for it
C11_ZeroBytesIsFailure ==
    Returned =>
        \A i \in 1..N :
            ZeroBytes(i) =>
                /\ ~response.results[i].success
                /\ ObjectsOf(urls[i].URL) = {}
                /\ RecordsOf(i) = {}

\* the origin of item i answers 200 and declares more than the maximum
DeclaredOversize(i) ==
    /\ ~Remote(urls[i].URL).err
    /\ Remote(urls[i].URL).status = 200
    /\ Remote(urls[i].URL).declared > MaxUploadSizeMB

\* the origin of item i answers 200 with a body of more than the maximum
ActualOversize(i) ==
    /\ ~Remote(urls[i].URL).err
    /\ Remote(urls[i].URL).status = 200
    /\ Remote(urls[i].URL).size > MaxUploadSizeMB

\* C12: an item over the maximum size is reported as failed and leaves no stored
\* object; one that declares it is rejected before any Upload call
C12_OversizeRejected ==
    /\ \A i \in 1..N : DeclaredOversize(i) => item[i].fileID = ""
    /\ Returned =>
        \A i \in 1..N :
            DeclaredOversize(i) \/ ActualOversize(i) =>
                /\ ~response.results[i].success
                /\ ObjectsOf(urls[i].URL) = {}

----------------------------------------------------------------------------
(* Storage: Upload, MultipartUpload and Delete of both backends.  Sizes    *)
(* are in megabytes, a payload is the sequence of its megabytes.           *)

\* the most Upload calls of one run
MaxUploads == 3

DefaultChunkSizeMB == 5

MultipartThresholdMB == 10

Min(a, b) == IF a < b THEN a ELSE b

\* a multipart.FileHeader with the content it opens on
FileHeader(filename, tag, size) ==
    [Filename |-> filename, Size |-> size, payload |-> [j \in 1..size |-> tag \o ToString(j)]]

\* the files uploaded: two of one name, small and large ones
Files ==
    {FileHeader("a", "x", 3), FileHeader("a", "y", 11), FileHeader("b", "z", 12),
     FileHeader("b", "w", 2)}

\* the number of non-empty reads of DefaultChunkSize the file gives
NumChunks(file) == (file.Size + DefaultChunkSizeMB - 1) \div DefaultChunkSizeMB

\* buffer[:n] of the k-th read
Chunk(file, k) ==
    SubSeq(file.payload, DefaultChunkSizeMB * (k - 1) + 1,
           Min(DefaultChunkSizeMB * k, file.Size))

\* a failure of one call: reading chunk at, uploading chunk at, or the
\* completion; at = 0 for none
Fault(kind, at) == [kind |-> kind, at |-> at]

NoFault == Fault("", 0)

FaultsOf(file) ==
    {NoFault}
    \cup {Fault(kind, k) : kind \in {"read", "upload"}, k \in 1..NumChunks(file)}
    \cup {Fault("complete", NumChunks(file))}

\* what a call of Upload returns and leaves behind
Outcome(err, ref, st, pend, fid) ==
    [err |-> err, ref |-> ref, store |-> st, pending |-> pend, nextFid |-> fid]

RECURSIVE DeleteAll(_, _)
\* s.client.DeleteFile of each chunk id
DeleteAll(st, chunks) ==
    IF chunks = <<>> THEN st ELSE DeleteAll(Delete(st, Head(chunks)), Tail(chunks))

RECURSIVE SeaweedChunks(_, _, _, _, _, _)
\* the loop of SeaweedFSStorage.MultipartUpload from its k-th read on, chunks
\* being the ids of the chunks uploaded so far
SeaweedChunks(st, pend, file, fault, fid, chunks) ==
    LET k == Len(chunks) + 1 IN
    IF fault.kind = "read" /\ fault.at = k
    THEN Outcome("failed to read file chunk", "", st, pend, fid)
    ELSE IF k > NumChunks(file)
    THEN IF Len(chunks) = 0 THEN Outcome("no chunks uploaded", "", st, pend, fid)
         ELSE Outcome("", chunks[1], st, pend, fid)
    ELSE IF fault.kind = "upload" /\ fault.at = k
    THEN Outcome("failed to upload chunk", "", DeleteAll(st, chunks), pend, fid)
    ELSE SeaweedChunks(Put(st, SeaweedFid(fid), Chunk(file, k)), pend, file, fault,
                       fid + 1, Append(chunks, SeaweedFid(fid)))

SeaweedMultipartUpload(st, pend, file, fault, fid) ==
    SeaweedChunks(st, pend, file, fault, fid, <<>>)

SeaweedUpload(st, pend, file, fault, fid) ==
    IF file.Size > MultipartThresholdMB
    THEN SeaweedMultipartUpload(st, pend, file, fault, fid)
    ELSE IF fault.kind = "upload"
    THEN Outcome("failed to upload to SeaweedFS", "", st, pend, fid)
    ELSE Outcome("", SeaweedFid(fid), Put(st, SeaweedFid(fid), file.payload), pend, fid + 1)

RECURSIVE Concat(_)
\* CompleteMultipartUpload: the parts assembled in the order listed
Concat(parts) == IF parts = <<>> THEN <<>> ELSE Head(parts) \o Concat(Tail(parts))

\* a multipart upload of S3 in progress
PendingUpload(key, parts) == [key |-> key, parts |-> parts]

RECURSIVE S3Parts(_, _, _, _, _, _)
\* the loop of S3Storage.MultipartUpload from its k-th read on, parts being
\* the parts uploaded so far; the abort frees them
S3Parts(st, pend, file, fault, fid, parts) ==
    LET k == Len(parts) + 1
        key == S3Key(file.Filename)
    IN
    IF fault.kind = "read" /\ fault.at = k
    THEN Outcome("failed to read file chunk", "", st, pend, fid)
    ELSE IF k > NumChunks(file)
    THEN IF fault.kind = "complete"
         THEN Outcome("failed to complete multipart upload", "", st,
                      pend \cup {PendingUpload(key, parts)}, fid)
         ELSE Outcome("", key, Put(st, key, Concat(parts)), pend, fid)
    ELSE IF fault.kind = "upload" /\ fault.at = k
    THEN Outcome("failed to upload part", "", st, pend, fid)
    ELSE S3Parts(st, pend, file, fault, fid, Append(parts, Chunk(file, k)))

S3MultipartUpload(st, pend, file, fault, fid) == S3Parts(st, pend, file, fault, fid, <<>>)

S3Upload(st, pend, file, fault, fid) ==
    IF file.Size > MultipartThresholdMB
    THEN S3MultipartUpload(st, pend, file, fault, fid)
    ELSE IF fault.kind = "upload"
    THEN Outcome("failed to upload to S3", "", st, pend, fid)
    ELSE Outcome("", S3Key(file.Filename), Put(st, S3Key(file.Filename), file.payload),
                 pend, fid)

\* storageProvider.Upload(file)
StorageUpload(prov, st, pend, file, fault, fid) ==
    IF prov = "s3" THEN S3Upload(st, pend, file, fault, fid)
    ELSE SeaweedUpload(st, pend, file, fault, fid)

Call(op, file, fault, err, ref, before, pendingBefore) ==
    [op |-> op, file |-> file, fault |-> fault, err |-> err, ref |-> ref,
     before |-> before, pendingBefore |-> pendingBefore]

NoFile == FileHeader("", "", 0)

\* the Upload calls made so far
Uploads == IF last = <<>> THEN 0 ELSE last.n

\* one call of Upload; issued keeps the content a ref was first returned for
Upload(file, fault) ==
    \E r \in {StorageUpload(provider, store, pending, file, fault, nextFid)} :
        /\ Uploads < MaxUploads
        /\ store' = r.store
        /\ pending' = r.pending
        /\ nextFid' = r.nextFid
        /\ issued' = IF r.err = "" /\ r.ref \notin DOMAIN issued
                     THEN [k \in DOMAIN issued \cup {r.ref} |->
                              IF k = r.ref THEN r.store[r.ref] ELSE issued[k]]
                     ELSE issued
        /\ last' = [n |-> Uploads + 1,
                    call |-> Call("upload", file, fault, r.err, r.ref, store, pending)]
        /\ UNCHANGED <<dbMedia, dbTags, transformVars, keyVars, pureVars, wsVars, provider, urls,
                       loopI, mainPc, sem, wg, pc, item, results, response, reordered>>

UploadFile == \E file \in Files : Upload(file, NoFault)

UploadFileFailing == \E file \in Files : \E fault \in FaultsOf(file) \ {NoFault} : Upload(file, fault)

\* one call of Delete on a ref an Upload returned
DeleteRef ==
    \E ref \in DOMAIN issued :
        /\ store' = Delete(store, ref)
        /\ issued' = [k \in DOMAIN issued \ {ref} |-> issued[k]]
        /\ last' = [n |-> last.n,
                    call |-> Call("delete", NoFile, NoFault, "", ref, store, pending)]
        /\ UNCHANGED <<dbMedia, dbTags, transformVars, keyVars, pureVars, wsVars, bulkVars, pending>>

InitUpload ==
    /\ provider \in {"s3", "seaweedfs"}
    /\ urls = <<>>
    /\ loopI = 1
    /\ mainPc = "idle"
    /\ sem = 0
    /\ wg = 0
    /\ pc = <<>>
    /\ item = <<>>
    /\ results = <<>>
    /\ response = <<>>
    /\ reordered = FALSE
    /\ nextFid = 1
    /\ store = <<>>
    /\ dbMedia = <<>>
    /\ dbTags = {}
    /\ resp = NoRequest
    /\ served = <<>>
    /\ IdleKey
    /\ IdleUpload
    /\ IdlePure
    /\ IdleWs

NextUpload == UploadFile \/ UploadFileFailing \/ DeleteRef

SpecUpload == InitUpload /\ [][NextUpload]_vars

----------------------------------------------------------------------------
(* Storage: the claims.                                                    *)

\* the last call was an Upload of a file above the multipart threshold
LastWasMultipart ==
    /\ last # <<>>
    /\ last.call.op = "upload"
    /\ last.call.file.Size > MultipartThresholdMB

\* C13: when reading or uploading a chunk of a multipart upload fails, the
\* upload is aborted (S3) or the chunks uploaded so far are deleted (SeaweedFS)
\* before the error is returned: nothing of the attempt remains stored
C13_FailedMultipartLeavesNothing ==
    LastWasMultipart /\ last.call.fault.kind \in {"read", "upload"} =>
        /\ last.call.err # ""
        /\ store = last.call.before
        /\ pending = last.call.pendingBefore

\* C14: after a successful chunked Upload the object under the returned ref is
\* the full payload
C14_ChunkedUploadStoresFullPayload ==
    LastWasMultipart /\ last.call.err = "" =>
        /\ last.call.ref \in DOMAIN store
        /\ store[last.call.ref] = last.call.file.payload

\* C15: the content under a ref returned by Upload stays what it was returned
\* for until the ref is deleted
C15_RefNeverMutated ==
    \A ref \in DOMAIN issued : ref \in DOMAIN store /\ store[ref] = issued[ref]

----------------------------------------------------------------------------
(* Validate: the specs validated.                                          *)

\* specs at and around every limit Validate checks, in every combination
ValidateInputs ==
    { Options(w, h, fit, crop, q, format, "", FALSE) :
        w \in {-1, 0, maxDimension, maxDimension + 1},
        h \in {-1, 0, 100, maxDimension + 1},
        fit \in {"", "contain", "cover", "fill", "diagonal"},
        crop \in {"", "center", "top", "bottom", "left", "right", "middle"},
        q \in {-1, 0, 100, 101, 150},
        format \in {"", "jpeg", "jpg", "png", "webp", "gif"} }

InitValidate ==
    /\ pin \in ValidateInputs
    /\ pout = <<>>
    /\ store = InitStore
    /\ dbMedia = InitMedia
    /\ dbTags = {}
    /\ resp = NoRequest
    /\ served = <<>>
    /\ IdleKey
    /\ IdleBulk
    /\ IdleUpload
    /\ IdleWs

\* one call of t.Validate()
RunValidate ==
    /\ pout = <<>>
    /\ pout' = [err |-> Validate(pin)]
    /\ UNCHANGED <<store, dbMedia, dbTags, transformVars, keyVars, bulkVars, uploadVars, wsVars, pin>>

NextValidate == RunValidate

SpecValidate == InitValidate /\ [][NextValidate]_vars

----------------------------------------------------------------------------
(* Validate: the claims.                                                   *)

\* the constraints of a spec, as the specification lists them
Constraints == {"negative", "maximum", "quality", "fit", "crop", "format"}

\* the constraints t violates, with the formats the specification lists
ViolatedListed(t) ==
    {c \in Constraints :
        \/ c = "negative" /\ (t.Width < 0 \/ t.Height < 0)
        \/ c = "maximum" /\ (t.Width > 16384 \/ t.Height > 16384)
        \/ c = "quality" /\ (t.Quality < 0 \/ t.Quality > 100)
        \/ c = "fit" /\ t.Fit \notin {"", "contain", "cover", "fill"}
        \/ c = "crop" /\ t.Crop \notin {"", "center", "top", "bottom", "left", "right"}
        \/ c = "format" /\ t.Format \notin {"", "jpeg", "png", "webp"}}

\* the constraints t violates, jpg being a format too
Violated(t) ==
    (ViolatedListed(t) \ {"format"})
    \cup {c \in {"format"} : t.Format \notin {"", "jpeg", "jpg", "png", "webp"}}

Validated == pout # <<>>

Named(err, t) ==
    {c \in Constraints :
        \/ c = "negative" /\ err = "width and height must be non-negative"
        \/ c = "maximum" /\ err = "maximum allowed dimension is 16384 pixels"
        \/ c = "quality" /\ err = "quality must be between 0 and 100"
        \/ c = "fit" /\ err = "invalid fit mode: " \o t.Fit
        \/ c = "crop" /\ err = "invalid crop position: " \o t.Crop
        \/ c = "format" /\ err = "unsupported format: " \o t.Format}

\* C17: the validation error names every constraint the spec violates
C17_ErrorNamesEveryViolation ==
    Validated => Violated(pin) \subseteq Named(pout.err, pin)

----------------------------------------------------------------------------
(* The transform entry points: ServeMediaFile, BatchTransformMedia and     *)
(* TransformMedia, each with the storage and transform calls it makes.     *)

\* t.IsEmpty()
IsEmpty(t) ==
    /\ t.Width = 0 /\ t.Height = 0 /\ t.Fit = "" /\ t.Crop = ""
    /\ t.Quality = 0 /\ t.Format = "" /\ t.Preset = "" /\ ~t.Fresh

\* what a GET of the internal URL of path returns: the object, or the
\* backend's not-found document, which is no image
Fetched(st, path) == IF path \in DOMAIN st THEN st[path] ELSE NoContent

\* what an entry point did: the response, the calls made to the storage
\* backend and to TransformImage, and the store and media table left
Handled(out, calls, st, db) == [resp |-> out, calls |-> calls, store |-> st, db |-> db]

\* the media row whose path matches filename and whose owner is userID, as a
\* set: empty when there is none
MediaByFilename(db, userID, filename) ==
    {k \in DOMAIN db : db[k].Path = filename /\ db[k].UserID = userID}

\* the content type ServeMediaFile answers a transformed image with
ServedContentType(options) ==
    CASE options.Format = "png"  -> "image/png"
      [] options.Format = "webp" -> "image/webp"
      [] OTHER                   -> "image/jpeg"

\* the Cache-Control header ServeMediaFile sets on a transformed image
ServedCacheControl(options) ==
    IF ~options.Fresh THEN "public, max-age=31536000"
    ELSE "no-cache, no-store, must-revalidate"

\* ServeMediaFile: the options are parsed and used as they are
HandleServeMediaFile(st, db, userID, filename, q, fetchFails) ==
    LET options == ParseOptions(q)
        found == MediaByFilename(db, userID, filename)
    IN  IF found = {}
        THEN Handled(JSONError(404, "Media not found"), <<>>, st, db)
        ELSE LET media == db[CHOOSE k \in found : TRUE]
             IN  IF fetchFails
                 THEN Handled(JSONError(500, "Failed to fetch file"), <<"Get">>, st, db)
                 ELSE IF IsImageMime(media.MimeType) /\ ~IsEmpty(options)
                 THEN LET t == TransformImage(Fetched(st, media.Path), options)
                      IN  IF t.err = "panic"
                          THEN Handled(Recovered, <<"Get", "TransformImage">>, st, db)
                          ELSE IF t.err # ""
                          THEN Handled(JSONError(500, "Failed to transform image"),
                                       <<"Get", "TransformImage">>, st, db)
                          ELSE Handled(Response(200, "", "", ServedCacheControl(options),
                                                ServedContentType(options), t.data),
                                       <<"Get", "TransformImage">>, st, db)
                 ELSE Handled(Response(200, "", "", "", media.MimeType,
                                       Fetched(st, media.Path)),
                              <<"Get">>, st, db)

\* the extension BatchTransformMedia names the transformed file with
TransformedExt(options) ==
    CASE options.Format = "png"  -> ".png"
      [] options.Format = "webp" -> ".webp"
      [] OTHER                   -> ".jpg"

\* the name of the transformed file; the clock makes it unique
TransformedFilename(media, options, now) ==
    media.Path \o "_transformed_" \o ToString(now) \o TransformedExt(options)

\* the media row BatchTransformMedia finds for the number mediaID
MediaByNumber(db, userID, mediaID) ==
    {k \in DOMAIN db : k = ToString(mediaID) /\ db[k].UserID = userID}

\* BatchTransformMedia for a list of one operation: the entry of results is
\* the body of the response, its error the error of the response
HandleBatchTransformMedia(st, db, userID, op, fetchFails, now) ==
    LET found == MediaByNumber(db, userID, op.MediaID)
        options == op.Transformations
    IN  IF found = {}
        THEN Handled(Response(200, "Media not found", "", "", "application/json", NoContent),
                     <<>>, st, db)
        ELSE LET media == db[CHOOSE k \in found : TRUE]
                 name == TransformedFilename(media, options, now)
             IN  IF fetchFails
                 THEN Handled(Response(200, "Failed to fetch file", "", "",
                                       "application/json", NoContent), <<"Get">>, st, db)
                 ELSE IF ~IsImageMime(media.MimeType)
                 THEN Handled(Response(200, "Not an image file", "", "",
                                       "application/json", NoContent), <<"Get">>, st, db)
                 ELSE LET t == TransformImage(Fetched(st, media.Path), options)
                      IN  IF t.err = "panic"
                          THEN Handled(Recovered, <<"Get", "TransformImage">>, st, db)
                          ELSE IF t.err # ""
                          THEN Handled(Response(200, "Failed to transform image", "", "",
                                                "application/json", NoContent),
                                       <<"Get", "TransformImage">>, st, db)
                          ELSE Handled(Response(200, "", "", "", "application/json", t.data),
                                       <<"Get", "TransformImage", "UploadBytes">>,
                                       UploadBytes(st, t.data, name, FALSE).store,
                                       [k \in DOMAIN db \cup {name} |->
                                           IF k = name
                                           THEN MediaRow(name, userID, name,
                                                         "image/" \o SubSeq(TransformedExt(options), 2, Len(TransformedExt(options))),
                                                         1)
                                           ELSE db[k]])

\* the calls TransformMedia makes: none before the media is found to be an
\* image of the user and the options are resolved
TransformMediaCalls(st, db, userID, mediaID, ro, out) ==
    IF mediaID \notin DOMAIN db \/ out.status \in {403, 404} THEN <<>>
    ELSE IF ~IsImageMime(db[mediaID].MimeType) THEN <<>>
    ELSE IF ro.err # "" THEN <<>>
    ELSE IF out.error = "Failed to read original file" THEN <<"Download">>
    ELSE IF out.xcache = "HIT" \/ out.error = "Failed to read cached file"
    THEN <<"Download", "Download">>
    ELSE IF out.error \in {"Failed to transform image", "panic"}
    THEN <<"Download", "Download", "TransformImage">>
    ELSE <<"Download", "Download", "TransformImage", "UploadBytes">>

\* the media and objects the entry points are called on: images of the user
\* ("7" found by number too), a document, and an image of another user
ServeMedia ==
    [id \in {"m1", "7", "m3", "m4"} |->
        CASE id = "m1" -> MediaRow(id, 1, "a.jpg", "image/jpeg", 1)
          [] id = "7"  -> MediaRow(id, 1, "b.png", "image/png", 1)
          [] id = "m3" -> MediaRow(id, 2, "c.jpg", "image/jpeg", 1)
          [] id = "m4" -> MediaRow(id, 1, "d.pdf", "application/pdf", 1)]

ServeStore ==
    [k \in {"m1", "7", "m3", "m4"} |->
        CASE k = "m1" -> Content(<<"m1">>, 400, 300, "jpeg", 0)
          [] k = "m3" -> Content(<<"m3">>, 300, 300, "jpeg", 0)
          [] k = "7"  -> Content(<<"7">>, 100, 200, "png", 0)
          [] k = "m4" -> Content(<<"m4">>, 0, 0, "pdf", 0)]

\* the queries of the runs: width and preset in every combination, a fresh
\* one, and specs that fail validation in one or in several fields
ServeQueries ==
    { Query(w, <<>>, "", "", <<>>, "", preset, "") :
        w \in {<<>>, <<"1", "5", "0">>}, preset \in {"", "thumbnail", "bogus"} }
    \cup {Query(<<"1", "5", "0">>, <<>>, "", "", <<>>, "png", "", "true"),
          Query(<<"-", "1">>, <<>>, "", "", <<>>, "", "", ""),
          Query(<<>>, <<>>, "", "", <<"1", "5", "0">>, "", "", ""),
          Query(<<"-", "1">>, <<>>, "diagonal", "", <<"1", "5", "0">>, "", "", ""),
          Query(<<"1", "5", "0">>, <<>>, "", "", <<>>, "gif", "", "")}

ServeRequests == { [q |-> q, ro |-> ResolveOptions(q)] : q \in ServeQueries }

\* what resp keeps of a call of an entry point
Entry(entry, id, options, calls, out) ==
    [entry |-> entry, id |-> id, options |-> options, calls |-> calls, out |-> out]

NoEntry == Entry("", "", ParseOptions(EmptyQuery), <<>>, JSONError(0, ""))

ServeMediaFile(filename, rq, fetchFails) ==
    \E r \in {HandleServeMediaFile(store, dbMedia, ThisUser, filename, rq.q, fetchFails)} :
        /\ resp' = Entry("ServeMediaFile", filename, ParseOptions(rq.q), r.calls, r.resp)
        /\ UNCHANGED <<store, dbMedia, dbTags, served, keyVars, bulkVars, uploadVars,
                       pureVars, wsVars>>

ServeMediaFileRequest ==
    \E filename \in {"m1", "7", "m3", "m4", "gone"}, rq \in ServeRequests,
       fetchFails \in BOOLEAN :
        ServeMediaFile(filename, rq, fetchFails)

BatchTransformMedia(op, fetchFails) ==
    \E r \in {HandleBatchTransformMedia(store, dbMedia, ThisUser, op, fetchFails,
                                        Cardinality(DOMAIN store))} :
        /\ Cardinality(DOMAIN r.store) <= MaxObjects
        /\ store' = r.store
        /\ dbMedia' = r.db
        /\ resp' = Entry("BatchTransformMedia", ToString(op.MediaID), op.Transformations,
                         r.calls, r.resp)
        /\ UNCHANGED <<dbTags, served, keyVars, bulkVars, uploadVars, pureVars, wsVars>>

BatchTransformMediaRequest ==
    \E mediaID \in {7, 8}, rq \in ServeRequests, fetchFails \in BOOLEAN :
        BatchTransformMedia([MediaID |-> mediaID, Transformations |-> ParseOptions(rq.q)],
                            fetchFails)

TransformMediaEntry(mediaID, rq) ==
    \E r \in {HandleTransformMedia(store, dbMedia, ThisUser, mediaID, rq.ro, NoFaults)} :
        /\ Cardinality(DOMAIN r.store) <= MaxObjects
        /\ store' = r.store
        /\ resp' = Entry("TransformMedia", mediaID, ParseOptions(rq.q),
                         TransformMediaCalls(store, dbMedia, ThisUser, mediaID, rq.ro, r.resp),
                         r.resp)
        /\ UNCHANGED <<dbMedia, dbTags, served, keyVars, bulkVars, uploadVars, pureVars, wsVars>>

TransformMediaEntryRequest ==
    \E mediaID \in {"m1", "m3", "m4", "gone"}, rq \in ServeRequests :
        TransformMediaEntry(mediaID, rq)

InitServe ==
    /\ store = ServeStore
    /\ dbMedia = ServeMedia
    /\ dbTags = {}
    /\ resp = NoEntry
    /\ served = <<>>
    /\ IdleKey
    /\ IdleBulk
    /\ IdleUpload
    /\ IdlePure
    /\ IdleWs

NextServe ==
    ServeMediaFileRequest \/ BatchTransformMediaRequest \/ TransformMediaEntryRequest

SpecServe == InitServe /\ [][NextServe]_vars

----------------------------------------------------------------------------
(* The transform entry points: the claims.                                 *)

\* the last call was a transform request for an image of the user
ImageRequested ==
    /\ resp.entry # ""
    /\ resp.id \in DOMAIN ServeMedia
    /\ ServeMedia[resp.id].UserID = ThisUser
    /\ IsImageMime(ServeMedia[resp.id].MimeType)

\* the request was rejected with a validation error
RejectedAsInvalid ==
    /\ resp.out.status = 400
    /\ resp.out.error \in {"Invalid preset", "Invalid transformation parameters"}

\* C18: a transform request that names a preset outside the preset table is
\* rejected with a validation error on every entry point
C18_UnknownPresetRejected ==
    (ImageRequested /\ resp.options.Preset # ""
        /\ ApplyPreset(resp.options, resp.options.Preset).err # "")
    => RejectedAsInvalid

\* C20: for a request whose spec fails validation no storage call and no
\* transform call is made, on every entry point
C20_InvalidSpecMakesNoCalls ==
    (resp.entry # "" /\ Validate(resp.options) # "") => resp.calls = <<>>

----------------------------------------------------------------------------
(* TransformImage: the sources and the specs it is called with.            *)

\* sources larger than, smaller than and across the target boxes, and bytes
\* that are no image
ImageSources ==
    {Content(<<"big">>, 400, 300, "jpeg", 0), Content(<<"tall">>, 100, 200, "png", 0),
     Content(<<"tiny">>, 30, 20, "gif", 0), Content(<<"doc">>, 0, 0, "pdf", 0)}

\* valid specs: each dimension unset, inside, across and outside the sources
ImageSpecs ==
    { Options(w, h, fit, crop, q, format, preset, fresh) :
        w \in {0, 50, 150, 500}, h \in {0, 50, 150, 500},
        fit \in {"", "contain", "cover", "fill"}, crop \in {"", "center", "top"},
        q \in {0, 80}, format \in {"", "jpeg", "png"}, preset \in {"", "thumbnail"},
        fresh \in BOOLEAN }

InitImage ==
    /\ pin \in [src : ImageSources, options : ImageSpecs]
    /\ pout = <<>>
    /\ store = InitStore
    /\ dbMedia = InitMedia
    /\ dbTags = {}
    /\ resp = NoRequest
    /\ served = <<>>
    /\ IdleKey
    /\ IdleBulk
    /\ IdleUpload
    /\ IdleWs

\* one call of TransformImage
RunTransformImage ==
    /\ pout = <<>>
    /\ pout' = TransformImage(pin.src, pin.options)
    /\ UNCHANGED <<store, dbMedia, dbTags, transformVars, keyVars, bulkVars, uploadVars, wsVars, pin>>

NextImage == RunTransformImage

SpecImage == InitImage /\ [][NextImage]_vars

----------------------------------------------------------------------------
(* TransformImage: the claims.                                             *)

\* the spec names no resize, no crop and no format
NoDirective(t) ==
    t.Width = 0 /\ t.Height = 0 /\ t.Fit = "" /\ t.Crop = "" /\ t.Format = ""

\* C21: for a valid spec with width, height, fit, crop and format unset,
\* whatever its quality, preset and fresh, TransformImage returns the source
\* bytes unchanged, decodable or not
C21_PassThroughUnchanged ==
    (pout # <<>> /\ Validate(pin.options) = "" /\ NoDirective(pin.options))
    => (pout.err = "" /\ pout.data = pin.src)

\* a pass-through of bytes that are no image, with quality and preset set
C21_Witness ==
    /\ pout # <<>>
    /\ NoDirective(pin.options)
    /\ pin.options.Quality = 80 /\ pin.options.Preset = "thumbnail" /\ pin.options.Fresh
    /\ DecodedFormat(pin.src) = ""
    /\ pout.err = "" /\ pout.data = pin.src

\* the request gives both dimensions and the source decodes
BothDimensions ==
    /\ pout # <<>>
    /\ Validate(pin.options) = ""
    /\ pin.options.Width > 0 /\ pin.options.Height > 0
    /\ pin.options.Crop = ""
    /\ DecodedFormat(pin.src) # ""

\* C22: with both width and height given, fill and cover give exactly w x h,
\* contain (or no fit) gives an output within w x h with at least one
\* dimension equal to the requested one, for larger and for smaller sources
C22_FitDimensions ==
    BothDimensions =>
        /\ pout.err = ""
        /\ pin.options.Fit \in {"fill", "cover"} =>
              pout.data.w = pin.options.Width /\ pout.data.h = pin.options.Height
        /\ pin.options.Fit \in {"", "contain"} =>
              /\ pout.data.w <= pin.options.Width /\ pout.data.h <= pin.options.Height
              /\ pout.data.w = pin.options.Width \/ pout.data.h = pin.options.Height

\* C28: for a valid spec with width and height unset and a crop anchor or a
\* format set, TransformImage on a decodable source returns encoded bytes:
\* the source raster cropped within its bounds, or re-encoded; never a crash
C28_CropOrFormatAloneEncodes ==
    (/\ pout # <<>>
     /\ Validate(pin.options) = ""
     /\ pin.options.Width = 0 /\ pin.options.Height = 0
     /\ pin.options.Crop # "" \/ pin.options.Format # ""
     /\ DecodedFormat(pin.src) # "")
    => /\ pout.err = ""
       /\ pout.data.w = pin.src.w /\ pout.data.h = pin.src.h
       /\ pout.data.fmt = (IF pin.options.Format = "" THEN DecodedFormat(pin.src)
                           ELSE pin.options.Format)

----------------------------------------------------------------------------
(* TransformMedia: the thumbnail preset and the order of the storage calls. *)

\* the request that names the thumbnail preset and nothing else
ThumbnailQuery == Query(<<>>, <<>>, "", "", <<>>, "", "thumbnail", "")

\* the request that spells the thumbnail out
ExplicitThumbnailQuery ==
    Query(<<"1", "5", "0">>, <<"1", "5", "0">>, "cover", "", <<"8", "0">>, "", "", "")

\* the two requests resolve to the same spec, the same key and the same
\* output, for every media id and every original of the runs
SameResolution ==
    LET a == ResolveOptions(ThumbnailQuery)
        b == ResolveOptions(ExplicitThumbnailQuery)
    IN  /\ a.err = "" /\ b.err = ""
        /\ SpecFields(a.options) = SpecFields(b.options)
        /\ \A id \in DOMAIN InitMedia : CacheKey(id, a.options) = CacheKey(id, b.options)
        /\ \A k \in DOMAIN InitStore :
              TransformImage(InitStore[k], a.options) = TransformImage(InitStore[k], b.options)

\* the request is for the thumbnail spec, in one form, and the cache entry
\* was written by a request in the other form
ServedFromTheOther ==
    /\ resp.valid
    /\ ~resp.options.Fresh
    /\ resp.f = NoFaults
    /\ SpecFields(resp.options) = SpecFields(ResolveOptions(ExplicitThumbnailQuery).options)
    /\ resp.prior # NoMiss
    /\ resp.prior.preset # resp.options.Preset

\* C23: preset=thumbnail alone resolves to the same spec, key and output as
\* width=150, height=150, fit=cover, quality=80, and either request is served
\* from the cache entry the other wrote
C23_ThumbnailIsExplicitCover ==
    /\ SameResolution
    /\ ServedFromTheOther =>
          /\ Served
          /\ resp.out.xcache = "HIT"
          /\ resp.out.body = resp.prior.body
          /\ resp.out.body = TransformImage(OriginalOf(resp),
                                            ResolveOptions(ThumbnailQuery).options).data

\* the explicit request served as a HIT from the entry the preset request wrote
C23_Witness ==
    /\ ServedFromTheOther
    /\ resp.options.Preset = ""
    /\ resp.prior.preset = "thumbnail"
    /\ resp.out.xcache = "HIT"
    /\ resp.out.body.w = 150 /\ resp.out.body.h = 150 /\ resp.out.body.q = 80

\* C26: the cache lookup comes before the fetch of the original: a
\* fresh=false request whose cache entry exists and reads back is served as a
\* HIT, also when the original is unavailable
C26_HitNeedsNoOriginal ==
    (/\ resp.valid
     /\ ~resp.options.Fresh
     /\ resp.cachedBefore
     /\ ~resp.f.cache /\ ~resp.f.read)
    => (Served /\ resp.out.xcache = "HIT")

----------------------------------------------------------------------------
(* UploadMedia and DeleteMedia: one object, one media record.              *)

\* Delete of the backend in use, fail being TRUE when the backend is
\* unavailable: DeleteObject and DeleteFile answer a ref that names no object
\* without an error, and the wrappers return what the client returns
StorageDeleteStrict(st, ref, fail) ==
    IF fail \/ ref \notin DOMAIN st THEN [err |-> "failed to delete", store |-> st]
    ELSE [err |-> "", store |-> Delete(st, ref)]

StorageDelete(st, ref, fail) ==
    IF fail THEN [err |-> "failed to delete", store |-> st]
    ELSE [err |-> "", store |-> Delete(st, ref)]

\* the folders of the user
UserFolders == {"f1"}

\* a multipart form: the file, the folder_id field and the tags fields
UploadForm(filename, size, folderID, tags) ==
    [Filename |-> filename, Size |-> size, folderID |-> folderID, tags |-> tags]

\* the forms of the runs: a plain file, one with a folder and tags, one with a
\* folder that is not the user's, one with a tag, and one that is too large
UploadForms ==
    {UploadForm("a", 3, "", <<>>), UploadForm("b", 3, "f1", <<"t", "u">>),
     UploadForm("a", 3, "nofolder", <<>>), UploadForm("b", 3, "", <<"t">>),
     UploadForm("a", MaxUploadSizeMB + 1, "", <<>>)}

\* the step of UploadMedia that fails, "" for none; "cleanup" is the failure
\* of the database together with that of the Delete that follows it
UploadFailures == {"", "upload", "tags", "marshal", "db", "cleanup"}

\* what resp keeps of a call of UploadMedia or DeleteMedia: acted is TRUE when
\* Upload succeeded, or when DeleteMedia found the record; absent is TRUE when
\* the object was not in the backend at the call
Handler(op, ref, acted, absent, fault, out) ==
    [op |-> op, ref |-> ref, acted |-> acted, absent |-> absent, fault |-> fault, out |-> out]

NoHandler == Handler("", "", FALSE, FALSE, "", JSONError(0, ""))

\* what a handler leaves: the response, the objects, the records and the tags
Left(h, st, db, tags) == [h |-> h, store |-> st, db |-> db, tags |-> tags]

\* the tags after FirstOrCreate of the first n names
TagsCreated(tags, names, n) == tags \cup {names[j] : j \in 1..n}

HandleUploadMedia(prov, st, db, tags, userID, form, fault, fid) ==
    LET fileID == UploadRef(prov, form.Filename, fid)
        up == Put(st, fileID, Content(<<form.Filename>>, 0, 0, "bin", 0))
        h(acted, status, error) ==
            Handler("UploadMedia", IF acted THEN fileID ELSE "", acted, FALSE, fault,
                    JSONError(status, error))
    IN  IF form.Size > MaxUploadSizeMB
        THEN Left(h(FALSE, 400, "File too large"), st, db, tags)
        ELSE IF fault = "upload"
        THEN Left(h(FALSE, 500, "Failed to upload file"), st, db, tags)
        ELSE IF form.folderID # "" /\ form.folderID \notin UserFolders
        THEN Left(h(TRUE, 400, "Invalid folder ID"), up, db, tags)
        ELSE IF fault = "tags" /\ form.tags # <<>>
        THEN Left(h(TRUE, 500, "Failed to process tags"), up, db,
                  TagsCreated(tags, form.tags, Len(form.tags) - 1))
        ELSE LET named == TagsCreated(tags, form.tags, Len(form.tags))
             IN  IF fault = "marshal"
                 THEN Left(h(TRUE, 500, "Failed to marshal metadata"), up, db, named)
                 ELSE IF fault \in {"db", "cleanup"} \/ fileID \in DOMAIN db
                 THEN Left(h(TRUE, 500, "Failed to save media metadata"),
                           StorageDelete(up, fileID, fault = "cleanup").store, db, named)
                 ELSE Left(h(TRUE, 200, ""), up,
                           [k \in DOMAIN db \cup {fileID} |->
                               IF k = fileID
                               THEN MediaRow(fileID, userID, form.Filename,
                                             "application/octet-stream", form.Size)
                               ELSE db[k]],
                           named)

\* the step of DeleteMedia that fails, "" for none
DeleteFailures == {"", "storage", "db"}

HandleDeleteMedia(st, db, userID, id, fault) ==
    LET h(acted, status, error) ==
            Handler("DeleteMedia", id, acted, acted /\ db[id].Path \notin DOMAIN st, fault,
                    JSONError(status, error))
    IN  IF id \notin DOMAIN db \/ db[id].UserID # userID
        THEN Left(h(FALSE, 404, "Media not found"), st, db, {})
        ELSE LET del == StorageDelete(st, db[id].Path, fault = "storage")
             IN  IF del.err # ""
                 THEN Left(h(TRUE, 500, "Failed to delete file"), st, db, {})
                 ELSE IF fault = "db"
                 THEN Left(h(TRUE, 500, "Failed to delete media record"), del.store, db, {})
                 ELSE Left(h(TRUE, 200, ""), del.store,
                           [k \in DOMAIN db \ {id} |-> db[k]], {})

UploadMedia(form, fault) ==
    \E r \in {HandleUploadMedia(provider, store, dbMedia, dbTags, ThisUser, form, fault,
                                nextFid)} :
        /\ Cardinality(DOMAIN r.store) <= MaxObjects
        /\ nextFid <= MaxUploads
        /\ store' = r.store
        /\ dbMedia' = r.db
        /\ dbTags' = r.tags
        /\ resp' = r.h
        /\ nextFid' = IF r.h.acted THEN nextFid + 1 ELSE nextFid
        /\ UNCHANGED <<served, keyVars, uploadVars, pureVars, wsVars, provider, urls, loopI, mainPc,
                       sem, wg, pc, item, results, response, reordered>>

UploadMediaRequest == \E form \in UploadForms, fault \in UploadFailures : UploadMedia(form, fault)

DeleteMedia(id, fault) ==
    \E r \in {HandleDeleteMedia(store, dbMedia, ThisUser, id, fault)} :
        /\ store' = r.store
        /\ dbMedia' = r.db
        /\ resp' = r.h
        /\ UNCHANGED <<dbTags, served, keyVars, bulkVars, uploadVars, pureVars, wsVars>>

DeleteMediaRequest ==
    \E id \in {"m1", "m3", "gone", S3Key("a"), SeaweedFid(1)}, fault \in DeleteFailures :
        DeleteMedia(id, fault)

InitHandlers ==
    /\ store = InitStore
    /\ dbMedia = InitMedia
    /\ dbTags = {}
    /\ resp = NoHandler
    /\ served = <<>>
    /\ IdleKey
    /\ IdleUpload
    /\ IdlePure
    /\ IdleWs
    /\ provider \in {"s3", "seaweedfs"}
    /\ urls = <<>> /\ loopI = 1 /\ mainPc = "idle" /\ sem = 0 /\ wg = 0 /\ pc = <<>>
    /\ item = <<>> /\ results = <<>> /\ response = <<>> /\ reordered = FALSE
    /\ nextFid = 1

NextHandlers == UploadMediaRequest \/ DeleteMediaRequest

SpecHandlers == InitHandlers /\ [][NextHandlers]_vars

----------------------------------------------------------------------------
(* UploadMedia and DeleteMedia: the claims.                                *)

\* C24: when UploadMedia ends in an error after Upload succeeded, the object
\* just uploaded has been deleted before the error is returned, unless the
\* cleanup Delete itself failed, which is not escalated
C24_UploadErrorCleansUp ==
    (/\ resp.op = "UploadMedia"
     /\ resp.acted
     /\ resp.out.status # 200)
    => /\ resp.fault # "cleanup" => resp.ref \notin DOMAIN store
       /\ resp.fault = "cleanup" => resp.out.error = "Failed to save media metadata"

C30_RecordAndObjectConsistent ==
    (resp.op = "DeleteMedia" /\ resp.acted)
    => ((resp.ref \in DOMAIN dbMedia) <=> (resp.ref \in DOMAIN store))

----------------------------------------------------------------------------
(* S3Storage.MultipartUpload, call by call.  pin is the file; pout is the  *)
(* position in the function, the bytes read so far, partNumber,            *)
(* completedParts, the buffer read, the calls made to the S3 client in     *)
(* their order, and what the function returned.                            *)

\* the integrity token the backend returns for a part
ETagOf(body) == <<"etag">> \o body

\* types.CompletedPart with its own copy of the part number
CompletedPartFirstNumber(etag, pnum) == [ETag |-> etag, PartNumber |-> 1]

CompletedPart(etag, pnum) == [ETag |-> etag, PartNumber |-> pnum]

\* the calls recorded
CreateCall(key) == [op |-> "CreateMultipartUpload", key |-> key]
UploadPartCall(key, n, body, etag) ==
    [op |-> "UploadPart", key |-> key, PartNumber |-> n, body |-> body, etag |-> etag]
AbortCall(key) == [op |-> "AbortMultipartUpload", key |-> key]
CompleteCall(key, parts) == [op |-> "CompleteMultipartUpload", key |-> key, parts |-> parts]

\* the files of the runs: those uploaded, and one without content
PartFiles == Files \cup {FileHeader("c", "v", 0)}

Running(at, off, partNumber, completedParts, buffer, calls, err, ref) ==
    [at |-> at, off |-> off, partNumber |-> partNumber, completedParts |-> completedParts,
     buffer |-> buffer, calls |-> calls, err |-> err, ref |-> ref]

InitParts ==
    /\ pin \in PartFiles
    /\ pout = Running("create", 0, 1, <<>>, <<>>, <<>>, "", "")
    /\ store = InitStore
    /\ dbMedia = InitMedia
    /\ dbTags = {}
    /\ resp = NoRequest
    /\ served = <<>>
    /\ IdleKey
    /\ IdleBulk
    /\ IdleUpload
    /\ IdleWs

PartsUnchanged ==
    UNCHANGED <<store, dbMedia, dbTags, transformVars, keyVars, bulkVars, uploadVars, wsVars, pin>>

\* CreateMultipartUpload, succeeding or not
CreateMultipartUpload ==
    /\ pout.at = "create"
    /\ \E ok \in BOOLEAN :
          pout' = IF ok
                  THEN [pout EXCEPT !.at = "read",
                                    !.calls = Append(@, CreateCall(S3Key(pin.Filename)))]
                  ELSE [pout EXCEPT !.at = "returned",
                                    !.calls = Append(@, CreateCall(S3Key(pin.Filename))),
                                    !.err = "failed to create multipart upload"]
    /\ PartsUnchanged

\* f.Read(buffer): n bytes, a full buffer or fewer, none at the end of the
\* file, or an error, after which the upload is aborted
ReadChunk ==
    /\ pout.at = "read"
    /\ \/ \E n \in {Min(DefaultChunkSizeMB, pin.Size - pout.off), Min(1, pin.Size - pout.off)} :
             pout' = IF n = 0
                     THEN [pout EXCEPT !.at = "complete"]
                     ELSE [pout EXCEPT !.at = "upload",
                                       !.buffer = SubSeq(pin.payload, pout.off + 1, pout.off + n),
                                       !.off = @ + n]
       \/ pout' = [pout EXCEPT !.at = "returned",
                               !.calls = Append(@, AbortCall(S3Key(pin.Filename))),
                               !.err = "failed to read file chunk"]
    /\ PartsUnchanged

\* UploadPart of buffer[:n] under partNumber; on an error the upload is aborted
UploadPart ==
    /\ pout.at = "upload"
    /\ \/ pout' = [pout EXCEPT
                      !.at = "read",
                      !.calls = Append(@, UploadPartCall(S3Key(pin.Filename), pout.partNumber,
                                                         pout.buffer, ETagOf(pout.buffer))),
                      !.completedParts = Append(@, CompletedPart(ETagOf(pout.buffer),
                                                                 pout.partNumber)),
                      !.partNumber = @ + 1]
       \/ pout' = [pout EXCEPT
                      !.at = "returned",
                      !.calls = Append(Append(@, UploadPartCall(S3Key(pin.Filename),
                                                                pout.partNumber,
                                                                pout.buffer, <<>>)),
                                       AbortCall(S3Key(pin.Filename))),
                      !.err = "failed to upload part"]
    /\ PartsUnchanged

\* CompleteMultipartUpload with completedParts, succeeding or not
CompleteMultipartUpload ==
    /\ pout.at = "complete"
    /\ \E ok \in BOOLEAN :
          pout' = [pout EXCEPT
                      !.at = "returned",
                      !.calls = Append(@, CompleteCall(S3Key(pin.Filename),
                                                       pout.completedParts)),
                      !.err = IF ok THEN "" ELSE "failed to complete multipart upload",
                      !.ref = IF ok THEN S3Key(pin.Filename) ELSE ""]
    /\ PartsUnchanged

NextParts == CreateMultipartUpload \/ ReadChunk \/ UploadPart \/ CompleteMultipartUpload

SpecParts == InitParts /\ [][NextParts]_vars

----------------------------------------------------------------------------
(* S3Storage.MultipartUpload: the claim.                                   *)

\* the positions in calls of the calls of one operation
CallsOf(op) == {i \in 1..Len(pout.calls) : pout.calls[i].op = op}

\* the parts the backend accepted, in the order of their calls
Accepted == SelectSeq(pout.calls, LAMBDA c : c.op = "UploadPart" /\ c.etag # <<>>)

\* C27: parts are uploaded under the numbers 1, 2, ..., m in that order, each
\* after the create call and before the completion call, and the one
\* completion call lists exactly those parts in ascending order, each with
\* the ETag the backend returned for it
C27_PartsSequentialAndComplete ==
    LET uploads == SelectSeq(pout.calls, LAMBDA c : c.op = "UploadPart")
    IN  /\ \A k \in 1..Len(uploads) : uploads[k].PartNumber = k
        /\ \A i \in CallsOf("UploadPart") :
              /\ \E j \in CallsOf("CreateMultipartUpload") : j < i
              /\ \A j \in CallsOf("CompleteMultipartUpload") : i < j
        /\ Cardinality(CallsOf("CompleteMultipartUpload")) <= 1
        /\ pout.at = "returned" /\ pout.err = ""
              => Cardinality(CallsOf("CompleteMultipartUpload")) = 1
        /\ \A j \in CallsOf("CompleteMultipartUpload") :
              /\ j = Len(pout.calls)
              /\ Len(pout.calls[j].parts) = Len(Accepted)
              /\ \A k \in 1..Len(Accepted) :
                    /\ pout.calls[j].parts[k].PartNumber = k
                    /\ pout.calls[j].parts[k].ETag = Accepted[k].etag

\* an upload of three parts or more, completed
C27_Witness ==
    /\ pout.at = "returned"
    /\ pout.err = ""
    /\ Len(pout.completedParts) >= 3
    /\ pout.calls[Len(pout.calls)].op = "CompleteMultipartUpload"
    /\ pout.calls[Len(pout.calls)].parts[3].PartNumber = 3

----------------------------------------------------------------------------
(* The websocket Manager for the clients of one user.  m.clients[userID]   *)
(* is a slice: a backing array of heap, and a length.  Manager.run works   *)
(* under m.mu; SendNotification copies the slice header under the read     *)
(* lock and reads the elements of the backing array after releasing it.    *)

\* the connections of the user
Clients == {"c1", "c2", "c3"}

\* cap(slice)
Cap(slice) == IF slice.array = 0 THEN 0 ELSE Len(heap[slice.array])

\* the capacity append gives a slice that has to grow
GrownCap(cap) == IF cap = 0 THEN 1 ELSE 2 * cap

\* no goroutine is inside Manager.run's critical sections
Unlocked == run.at = "select"

\* case client := <-m.register: append under the lock, in place when the
\* capacity allows, into a new array otherwise; a connection registers once,
\* and run.opened keeps those that have
RegisterClient(c) ==
    /\ Unlocked
    /\ c \notin run.opened
    /\ IF clients.len < Cap(clients)
       THEN /\ heap' = [heap EXCEPT ![clients.array][clients.len + 1] = c]
            /\ clients' = [clients EXCEPT !.len = @ + 1]
       ELSE /\ heap' = Append(heap, [k \in 1..GrownCap(Cap(clients)) |->
                                        IF k <= clients.len THEN heap[clients.array][k]
                                        ELSE IF k = clients.len + 1 THEN c ELSE ""])
            /\ clients' = [array |-> Len(heap) + 1, len |-> clients.len + 1]
    /\ run' = [run EXCEPT !.opened = @ \cup {c}]
    /\ UNCHANGED send
    /\ UNCHANGED <<store, dbMedia, dbTags, transformVars, keyVars, bulkVars, uploadVars,
                   pureVars>>

\* case client := <-m.unregister: the lock is taken and the client looked for
UnregisterClient(c) ==
    /\ Unlocked
    /\ clients # NoSlice
    /\ \E k \in 1..clients.len : heap[clients.array][k] = c
    /\ run' = [run EXCEPT !.at = "shift",
                           !.j = CHOOSE k \in 1..clients.len : heap[clients.array][k] = c]
    /\ UNCHANGED <<clients, heap, send>>
    /\ UNCHANGED <<store, dbMedia, dbTags, transformVars, keyVars, bulkVars, uploadVars,
                   pureVars>>

\* append(clients[:i], clients[i+1:]...): the elements after the client are
\* moved down one place in the same backing array, one by one
ShiftDown ==
    /\ run.at = "shift"
    /\ run.j < clients.len
    /\ heap' = [heap EXCEPT ![clients.array][run.j] = heap[clients.array][run.j + 1]]
    /\ run' = [run EXCEPT !.j = @ + 1]
    /\ UNCHANGED <<clients, send>>
    /\ UNCHANGED <<store, dbMedia, dbTags, transformVars, keyVars, bulkVars, uploadVars,
                   pureVars>>

\* the shorter slice is stored, the entry deleted when it is empty, and the
\* lock released
Unregistered ==
    /\ run.at = "shift"
    /\ run.j = clients.len
    /\ clients' = IF clients.len = 1 THEN NoSlice ELSE [clients EXCEPT !.len = @ - 1]
    /\ run' = [run EXCEPT !.at = "select", !.j = 0]
    /\ UNCHANGED <<heap, send>>
    /\ UNCHANGED <<store, dbMedia, dbTags, transformVars, keyVars, bulkVars, uploadVars,
                   pureVars>>

\* SendNotification, lines 101-107: the slice header is read under the read
\* lock; registered keeps the clients it held then
Snapshot ==
    /\ send.at = "idle"
    /\ Unlocked
    /\ send' = IF clients = NoSlice
               THEN [at |-> "returned", slice |-> NoSlice, registered |-> {}, i |-> 1,
                     delivered |-> <<>>]
               ELSE [at |-> "loop", slice |-> clients,
                     registered |-> {heap[clients.array][k] : k \in 1..clients.len},
                     i |-> 1, delivered |-> <<>>]
    /\ UNCHANGED <<clients, heap, run>>
    /\ UNCHANGED <<store, dbMedia, dbTags, transformVars, keyVars, bulkVars, uploadVars,
                   pureVars>>

\* one iteration of the range loop: the element is read from the backing
\* array and the message written to its connection
WriteMessage ==
    /\ send.at = "loop"
    /\ send.i <= send.slice.len
    /\ send' = [send EXCEPT !.delivered = Append(@, heap[send.slice.array][send.i]),
                            !.i = @ + 1]
    /\ UNCHANGED <<clients, heap, run>>
    /\ UNCHANGED <<store, dbMedia, dbTags, transformVars, keyVars, bulkVars, uploadVars,
                   pureVars>>

\* the loop is over and SendNotification returns
Sent ==
    /\ send.at = "loop"
    /\ send.i > send.slice.len
    /\ send' = [send EXCEPT !.at = "returned"]
    /\ UNCHANGED <<clients, heap, run>>
    /\ UNCHANGED <<store, dbMedia, dbTags, transformVars, keyVars, bulkVars, uploadVars,
                   pureVars>>

InitManager ==
    /\ IdleWs
    /\ store = InitStore
    /\ dbMedia = InitMedia
    /\ dbTags = {}
    /\ resp = NoRequest
    /\ served = <<>>
    /\ IdleKey
    /\ IdleBulk
    /\ IdleUpload
    /\ IdlePure

NextManager ==
    \/ \E c \in Clients : RegisterClient(c)
    \/ \E c \in Clients : UnregisterClient(c)
    \/ ShiftDown
    \/ Unregistered
    \/ Snapshot
    \/ WriteMessage
    \/ Sent

SpecManager == InitManager /\ [][NextManager]_vars

----------------------------------------------------------------------------
(* The websocket Manager: the claim.                                       *)

\* C29: a SendNotification delivers the message at most once to each client,
\* and only to clients registered for the user when it took its snapshot,
\* also when an UnregisterClient of the same user is processed during the
\* send loop
C29_AtMostOncePerSnapshotClient ==
    send.at \in {"loop", "returned"} =>
        /\ \A i, j \in 1..Len(send.delivered) :
              send.delivered[i] = send.delivered[j] => i = j
        /\ \A i \in 1..Len(send.delivered) : send.delivered[i] \in send.registered

====
